---------------------------- MODULE Spec2Model ----------------------------
(***************************************************************************)
(* A model of pgn-chess-tree: the chess Board engine (piece placement,     *)
(* push/pop, move generation, SAN and FEN I/O), the Move value with its    *)
(* UCI text, the GameNode tree with its lazily cached boards, and the      *)
(* tree builder that turns an upstream parse tree into a Game.             *)
(*                                                                         *)
(* Text (SAN, UCI, FEN) is a sequence of one-character strings.  The       *)
(* JavaScript value null is modelled, per type, by a distinguished value:  *)
(* NoPiece for a Piece, NullPT for a PieceType, NullSq for a Square,       *)
(* NullId for an object reference.                                         *)
(***************************************************************************)
EXTENDS Integers, Sequences, FiniteSets, TLC

(***************************************************************************)
(* Types and constants (chess/types.ts)                                    *)
(***************************************************************************)
WHITE == TRUE
BLACK == FALSE

PAWN == 1
KNIGHT == 2
BISHOP == 3
ROOK == 4
QUEEN == 5
KING == 6
NullPT == 0

A1 == 0
B1 == 1
C1 == 2
D1 == 3
E1 == 4
F1 == 5
G1 == 6
H1 == 7
A8 == 56
B8 == 57
C8 == 58
D8 == 59
E8 == 60
F8 == 61
G8 == 62
H8 == 63
NullSq == -1

CASTLING_WHITE_KINGSIDE == 1
CASTLING_WHITE_QUEENSIDE == 2
CASTLING_BLACK_KINGSIDE == 4
CASTLING_BLACK_QUEENSIDE == 8

SQUARES == 0..63

FILE_NAMES == <<"a", "b", "c", "d", "e", "f", "g", "h">>
RANK_NAMES == <<"1", "2", "3", "4", "5", "6", "7", "8">>
PIECE_SYMBOLS == <<"p", "n", "b", "r", "q", "k">>
UPPER_SYMBOLS == <<"P", "N", "B", "R", "Q", "K">>
DIGITS == <<"0", "1", "2", "3", "4", "5", "6", "7", "8", "9">>

squareFile(square) == square % 8
squareRank(square) == square \div 8
squareFromFileRank(file, rank) == rank * 8 + file

\* The text "undefined": what JavaScript renders for a missing array element
\* when it is appended to a string.
UNDEFINED_TEXT == <<"u", "n", "d", "e", "f", "i", "n", "e", "d">>

IsSquare(square) == square \in SQUARES

\* SQUARE_NAMES[square], for a square of the board.  For any other index the
\* table gives undefined; the callers that can meet one test IsSquare first.
squareName(square) == <<FILE_NAMES[squareFile(square) + 1], RANK_NAMES[squareRank(square) + 1]>>

IndexOf(seq, x) == IF \E i \in 1..Len(seq) : seq[i] = x
                   THEN CHOOSE i \in 1..Len(seq) : seq[i] = x /\ \A j \in 1..(i-1) : seq[j] # x
                   ELSE 0

\* String.prototype.toLowerCase / toUpperCase on the characters the model uses.
UPPER_LETTERS == <<"A", "B", "C", "D", "E", "F", "G", "H", "K", "N", "O", "P", "Q", "R", "X", "Z">>
LOWER_LETTERS == <<"a", "b", "c", "d", "e", "f", "g", "h", "k", "n", "o", "p", "q", "r", "x", "z">>
toLowerCase(c) == IF IndexOf(UPPER_LETTERS, c) > 0 THEN LOWER_LETTERS[IndexOf(UPPER_LETTERS, c)] ELSE c
toUpperCase(c) == IF IndexOf(LOWER_LETTERS, c) > 0 THEN UPPER_LETTERS[IndexOf(LOWER_LETTERS, c)] ELSE c

\* parseSquare(name): the square's index, or NullSq when name is no square name.
parseSquare(name) ==
    IF Len(name) = 2
       /\ IndexOf(FILE_NAMES, toLowerCase(name[1])) > 0
       /\ IndexOf(RANK_NAMES, name[2]) > 0
    THEN squareFromFileRank(IndexOf(FILE_NAMES, toLowerCase(name[1])) - 1, IndexOf(RANK_NAMES, name[2]) - 1)
    ELSE NullSq

(***************************************************************************)
(* Sequence helpers                                                        *)
(***************************************************************************)
RECURSIVE FlattenFrom(_, _)
FlattenFrom(ss, i) == IF i > Len(ss) THEN <<>> ELSE ss[i] \o FlattenFrom(ss, i + 1)
Flatten(ss) == FlattenFrom(ss, 1)

SeqToSet(s) == {s[i] : i \in 1..Len(s)}

\* Array.prototype.join(sep) for an array of texts.
RECURSIVE JoinFrom(_, _, _)
JoinFrom(parts, sep, i) ==
    IF i > Len(parts) THEN <<>>
    ELSE IF i = Len(parts) THEN parts[i]
    ELSE parts[i] \o sep \o JoinFrom(parts, sep, i + 1)
Join(parts, sep) == JoinFrom(parts, sep, 1)

\* String.prototype.split on one separator character (an empty text yields
\* one empty part, as in JavaScript).
RECURSIVE SplitAcc(_, _, _, _)
SplitAcc(text, sep, i, cur) ==
    IF i > Len(text) THEN <<cur>>
    ELSE IF text[i] = sep THEN <<cur>> \o SplitAcc(text, sep, i + 1, <<>>)
    ELSE SplitAcc(text, sep, i + 1, Append(cur, text[i]))
Split(text, sep) == SplitAcc(text, sep, 1, <<>>)

\* String.prototype.split(/\s+/): runs of blanks separate the parts.
RECURSIVE SplitBlanksAcc(_, _, _, _)
SplitBlanksAcc(text, i, cur, inBlank) ==
    IF i > Len(text) THEN <<cur>>
    ELSE IF text[i] = " "
         THEN IF inBlank THEN SplitBlanksAcc(text, i + 1, cur, TRUE)
              ELSE <<cur>> \o SplitBlanksAcc(text, i + 1, <<>>, TRUE)
    ELSE SplitBlanksAcc(text, i + 1, Append(cur, text[i]), FALSE)
SplitBlanks(text) == SplitBlanksAcc(text, 1, <<>>, FALSE)

\* Number.prototype.toString for an integer.
RECURSIVE NatToString(_)
NatToString(n) == IF n < 10 THEN <<DIGITS[n + 1]>> ELSE Append(NatToString(n \div 10), DIGITS[(n % 10) + 1])
IntToString(n) == IF n < 0 THEN <<"-">> \o NatToString(0 - n) ELSE NatToString(n)

\* parseInt(text): the leading optionally signed run of digits; NaN is
\* modelled by the record's nan flag.
RECURSIVE DigitsValue(_, _, _)
DigitsValue(text, i, acc) ==
    IF i > Len(text) \/ IndexOf(DIGITS, text[i]) = 0 THEN acc
    ELSE DigitsValue(text, i + 1, acc * 10 + IndexOf(DIGITS, text[i]) - 1)
parseInt(text) ==
    LET neg == Len(text) > 0 /\ text[1] = "-"
        start == IF Len(text) > 0 /\ text[1] \in {"-", "+"} THEN 2 ELSE 1
    IN IF start > Len(text) \/ IndexOf(DIGITS, text[start]) = 0
       THEN [nan |-> TRUE, value |-> 0]
       ELSE [nan |-> FALSE,
             value |-> IF neg THEN 0 - DigitsValue(text, start, 0) ELSE DigitsValue(text, start, 0)]
\* parseInt(text) || dflt : NaN and 0 are falsy.
parseIntOr(text, dflt) ==
    LET r == parseInt(text) IN IF r.nan \/ r.value = 0 THEN dflt ELSE r.value

(***************************************************************************)
(* Piece (chess/piece.ts) and Move (chess/move.ts)                         *)
(***************************************************************************)
Piece(pieceType, color) == [pieceType |-> pieceType, color |-> color]
NoPiece == [pieceType |-> NullPT, color |-> FALSE]

\* piece.symbol(): uppercase for white, lowercase for black.
symbol(piece) == IF piece.color = WHITE THEN toUpperCase(PIECE_SYMBOLS[piece.pieceType])
                 ELSE PIECE_SYMBOLS[piece.pieceType]

\* Piece.fromSymbol(c): NoPiece stands for the thrown "Invalid piece symbol".
fromSymbol(c) ==
    LET idx == IndexOf(PIECE_SYMBOLS, toLowerCase(c))
    IN IF idx <= 0 \/ idx > 6 THEN NoPiece ELSE Piece(idx, c = toUpperCase(c))

Move(fromSquare, toSquare, promotion, drop) ==
    [fromSquare |-> fromSquare, toSquare |-> toSquare, promotion |-> promotion, drop |-> drop]
MoveNull == Move(0, 0, NullPT, NullPT)
\* The value none where a Move is expected (pop() on an empty stack).
NoMove == Move(NullSq, NullSq, NullPT, NullPT)
isNull(move) == move.fromSquare = 0 /\ move.toSquare = 0 /\ move.promotion = NullPT /\ move.drop = NullPT

\* move.uci(): a drop is "<Piece>@<square>", any other move the two square
\* names followed by the promotion letter.  The promotion letter is looked up
\* in ['', '', 'n', 'b', 'r', 'q']: the pawn has the empty text and the king
\* has no element, which string concatenation renders as "undefined".
DROP_LETTERS == <<<<>>, <<"P">>, <<"N">>, <<"B">>, <<"R">>, <<"Q">>, <<"K">>>>
PROMOTION_LETTERS == <<<<>>, <<>>, <<"n">>, <<"b">>, <<"r">>, <<"q">>>>
uci(move) ==
    IF move.drop # NullPT
    THEN DROP_LETTERS[move.drop + 1] \o <<"@">> \o squareName(move.toSquare)
    ELSE squareName(move.fromSquare) \o squareName(move.toSquare)
         \o (IF move.promotion = NullPT THEN <<>>
             ELSE IF move.promotion + 1 <= Len(PROMOTION_LETTERS)
                  THEN PROMOTION_LETTERS[move.promotion + 1]
                  ELSE UNDEFINED_TEXT)

\* Move.fromUci(text): the move, or threw when it throws "Invalid UCI move" or
\* "Invalid promotion piece".
Includes(text, c) == \E i \in 1..Len(text) : text[i] = c
Threw == [threw |-> TRUE, move |-> NoMove]
Returned(move) == [threw |-> FALSE, move |-> move]
fromUci(text) ==
    IF Len(text) < 4 THEN Threw
    ELSE IF text = <<"0", "0", "0", "0">> THEN Returned(MoveNull)
    ELSE IF Includes(text, "@")
    THEN LET pieceSymbol == toUpperCase(text[1])
             toSquare == parseSquare(SubSeq(text, 3, 4))
             pieceType == IF IndexOf(UPPER_SYMBOLS, pieceSymbol) > 0
                          THEN IndexOf(UPPER_SYMBOLS, pieceSymbol) ELSE -1
         IN IF toSquare = NullSq THEN Threw
            ELSE Returned(Move(0, toSquare, NullPT, pieceType))
    ELSE LET fromSquare == parseSquare(SubSeq(text, 1, 2))
             toSquare == parseSquare(SubSeq(text, 3, 4))
             promotionChar == IF Len(text) > 4 THEN toLowerCase(text[5]) ELSE ""
             promotion == IF promotionChar = "n" THEN KNIGHT
                          ELSE IF promotionChar = "b" THEN BISHOP
                          ELSE IF promotionChar = "r" THEN ROOK
                          ELSE IF promotionChar = "q" THEN QUEEN
                          ELSE NullPT
         IN IF fromSquare = NullSq \/ toSquare = NullSq THEN Threw
            ELSE IF Len(text) > 4 /\ promotion = NullPT THEN Threw
            ELSE Returned(Move(fromSquare, toSquare, promotion, NullPT))

(***************************************************************************)
(* Board (chess/board.ts): state, push and pop                             *)
(***************************************************************************)
Abs(x) == IF x < 0 THEN 0 - x ELSE x

HasRight(rights, bit) == (rights \div bit) % 2 = 1
\* a clearing that leaves the bit set
ClearRight_keep(rights, bit) == rights
ClearRight(rights, bit) == IF HasRight(rights, bit) THEN rights - bit ELSE rights

\* (from + to) / 2 in JavaScript numbers: a non-integer n + 0.5 is encoded
\* as HalfBase + n, which is no index of SQUARE_NAMES or of pieces and equals
\* no square computed by the move generators.
HalfBase == 1000
\* the origin square instead of the square midway
Midpoint_origin(fromSquare, toSquare) == fromSquare
Midpoint(fromSquare, toSquare) ==
    IF (fromSquare + toSquare) % 2 = 0 THEN (fromSquare + toSquare) \div 2
    ELSE HalfBase + ((fromSquare + toSquare) \div 2)

saveState(b) ==
    [turn |-> b.turn, castlingRights |-> b.castlingRights, epSquare |-> b.epSquare,
     halfmoveClock |-> b.halfmoveClock, fullmoveNumber |-> b.fullmoveNumber,
     pieces |-> b.pieces]

\* restoreState that leaves the squares as they are (the snapshot shares the
\* pieces array with the board instead of holding a copy of it)
restoreState_sharedPieces(b, state) ==
    [b EXCEPT !.turn = state.turn, !.castlingRights = state.castlingRights,
              !.epSquare = state.epSquare, !.halfmoveClock = state.halfmoveClock,
              !.fullmoveNumber = state.fullmoveNumber]

restoreState(b, state) ==
    [b EXCEPT !.turn = state.turn, !.castlingRights = state.castlingRights,
              !.epSquare = state.epSquare, !.halfmoveClock = state.halfmoveClock,
              !.fullmoveNumber = state.fullmoveNumber, !.pieces = state.pieces]

\* The observable fields of a board (everything but the undo stack).
Fields(b) == saveState(b)

copy(b) == [b EXCEPT !.moveStack = <<>>]

king(b, color) ==
    IF \E sq \in SQUARES : b.pieces[sq] = Piece(KING, color)
    THEN CHOOSE sq \in SQUARES : b.pieces[sq] = Piece(KING, color)
                                 /\ \A s2 \in 0..(sq - 1) : b.pieces[s2] # Piece(KING, color)
    ELSE NullSq

handleCastling(pieces, move, color) ==
    LET p1 == [pieces EXCEPT ![move.fromSquare] = NoPiece]
        p2 == [p1 EXCEPT ![move.toSquare] = Piece(KING, color)]
        kingside == squareFile(move.toSquare) = 6
        rookFrom == IF kingside THEN (IF color = WHITE THEN H1 ELSE H8)
                    ELSE (IF color = WHITE THEN A1 ELSE A8)
        rookTo == IF kingside THEN (IF color = WHITE THEN F1 ELSE F8)
                  ELSE (IF color = WHITE THEN D1 ELSE D8)
        p3 == [p2 EXCEPT ![rookFrom] = NoPiece]
    IN [p3 EXCEPT ![rookTo] = Piece(ROOK, color)]

updateStateAfterMove(b, piece, move, captured) ==
    LET ep == IF piece.pieceType = PAWN
                 /\ Abs(squareRank(move.toSquare) - squareRank(move.fromSquare)) = 2
              THEN Midpoint(move.fromSquare, move.toSquare) ELSE NullSq
        r0 == b.castlingRights
        r1 == IF piece.pieceType = KING
              THEN IF piece.color = WHITE
                   THEN ClearRight(ClearRight(r0, CASTLING_WHITE_KINGSIDE), CASTLING_WHITE_QUEENSIDE)
                   ELSE ClearRight(ClearRight(r0, CASTLING_BLACK_KINGSIDE), CASTLING_BLACK_QUEENSIDE)
              ELSE r0
        ClearFor(r, sq) ==
            IF sq = A1 THEN ClearRight(r, CASTLING_WHITE_QUEENSIDE)
            ELSE IF sq = H1 THEN ClearRight(r, CASTLING_WHITE_KINGSIDE)
            ELSE IF sq = A8 THEN ClearRight(r, CASTLING_BLACK_QUEENSIDE)
            ELSE IF sq = H8 THEN ClearRight(r, CASTLING_BLACK_KINGSIDE)
            ELSE r
        r2 == IF piece.pieceType = ROOK THEN ClearFor(r1, move.fromSquare) ELSE r1
        r3 == IF captured # NoPiece /\ captured.pieceType = ROOK THEN ClearFor(r2, move.toSquare) ELSE r2
    IN [b EXCEPT !.epSquare = ep,
                 !.castlingRights = r3,
                 !.halfmoveClock = IF piece.pieceType = PAWN \/ captured # NoPiece THEN 0 ELSE @ + 1,
                 !.fullmoveNumber = IF b.turn = BLACK THEN @ + 1 ELSE @,
                 !.turn = ~b.turn]

\* push(move) throws "No piece at ..." exactly when the origin square is empty.
pushThrows(b, move) == b.pieces[move.fromSquare] = NoPiece

\* The board after push(move).  The undo record is pushed before the origin
\* square is examined, so it is on the stack also when push throws.
push(b, move) ==
    LET capturedPiece == b.pieces[move.toSquare]
        b1 == [b EXCEPT !.moveStack = Append(@, [move |-> move, capturedPiece |-> capturedPiece,
                                                 prevState |-> saveState(b)])]
        piece == b.pieces[move.fromSquare]
    IN IF piece = NoPiece THEN b1
       ELSE IF piece.pieceType = KING
               /\ Abs(squareFile(move.fromSquare) - squareFile(move.toSquare)) = 2
       THEN updateStateAfterMove([b1 EXCEPT !.pieces = handleCastling(@, move, piece.color)],
                                 piece, move, NoPiece)
       ELSE LET isEp == piece.pieceType = PAWN /\ move.toSquare = b.epSquare
                capturedPawnSquare == move.toSquare + (IF piece.color = WHITE THEN -8 ELSE 8)
                actualCapture == IF isEp
                                 THEN (IF IsSquare(capturedPawnSquare) THEN b.pieces[capturedPawnSquare] ELSE NoPiece)
                                 ELSE capturedPiece
                p1 == IF isEp /\ IsSquare(capturedPawnSquare)
                      THEN [b.pieces EXCEPT ![capturedPawnSquare] = NoPiece] ELSE b.pieces
                p2 == [p1 EXCEPT ![move.fromSquare] = NoPiece]
                p3 == [p2 EXCEPT ![move.toSquare] =
                          IF move.promotion # NullPT THEN Piece(move.promotion, piece.color) ELSE piece]
            IN updateStateAfterMove([b1 EXCEPT !.pieces = p3], piece, move, actualCapture)

\* pop(): the board after, and the value returned.
pop(b) ==
    IF b.moveStack = <<>> THEN b
    ELSE [restoreState(b, b.moveStack[Len(b.moveStack)].prevState)
             EXCEPT !.moveStack = SubSeq(b.moveStack, 1, Len(b.moveStack) - 1)]
popResult(b) == IF b.moveStack = <<>> THEN NoMove ELSE b.moveStack[Len(b.moveStack)].move

(***************************************************************************)
(* Board: move generation                                                  *)
(***************************************************************************)
KNIGHT_MOVES == << <<-2, -1>>, <<-2, 1>>, <<-1, -2>>, <<-1, 2>>,
                   <<1, -2>>, <<1, 2>>, <<2, -1>>, <<2, 1>> >>
KING_MOVES == << <<-1, -1>>, <<-1, 0>>, <<-1, 1>>, <<0, -1>>, <<0, 1>>,
                 <<1, -1>>, <<1, 0>>, <<1, 1>> >>
BISHOP_DIRECTIONS == << <<-1, -1>>, <<-1, 1>>, <<1, -1>>, <<1, 1>> >>
ROOK_DIRECTIONS == << <<-1, 0>>, <<1, 0>>, <<0, -1>>, <<0, 1>> >>
QUEEN_DIRECTIONS == BISHOP_DIRECTIONS \o ROOK_DIRECTIONS

OnBoard(file, rank) == file >= 0 /\ file <= 7 /\ rank >= 0 /\ rank <= 7

\* isAttacked(square, byColor)
isAttacked(b, square, byColor) ==
    LET file == squareFile(square)
        rank == squareRank(square)
        At(f, r) == b.pieces[squareFromFileRank(f, r)]
        pawnRank == IF byColor = WHITE THEN rank - 1 ELSE rank + 1
        \* The first piece met on the ray (df, dr), NoPiece when the ray is empty.
        FirstOnRay(df, dr) ==
            LET hits == {dist \in 1..7 : OnBoard(file + df * dist, rank + dr * dist)
                                         /\ At(file + df * dist, rank + dr * dist) # NoPiece}
            IN IF hits = {} THEN NoPiece
               ELSE LET d == CHOOSE x \in hits : \A y \in hits : x <= y
                    IN At(file + df * d, rank + dr * d)
    IN \/ \E i \in 1..8 : /\ OnBoard(file + KNIGHT_MOVES[i][1], rank + KNIGHT_MOVES[i][2])
                          /\ At(file + KNIGHT_MOVES[i][1], rank + KNIGHT_MOVES[i][2]) = Piece(KNIGHT, byColor)
       \/ \E i \in 1..8 : /\ OnBoard(file + KING_MOVES[i][1], rank + KING_MOVES[i][2])
                          /\ At(file + KING_MOVES[i][1], rank + KING_MOVES[i][2]) = Piece(KING, byColor)
       \/ /\ pawnRank >= 0 /\ pawnRank <= 7
          /\ \E df \in {-1, 1} : /\ file + df >= 0 /\ file + df <= 7
                                 /\ At(file + df, pawnRank) = Piece(PAWN, byColor)
       \/ \E i \in 1..8 :
            LET df == QUEEN_DIRECTIONS[i][1]
                dr == QUEEN_DIRECTIONS[i][2]
                piece == FirstOnRay(df, dr)
                isDiagonal == df # 0 /\ dr # 0
                isStraight == df = 0 \/ dr = 0
            IN /\ piece # NoPiece
               /\ piece.color = byColor
               /\ \/ piece.pieceType = QUEEN
                  \/ piece.pieceType = BISHOP /\ isDiagonal
                  \/ piece.pieceType = ROOK /\ isStraight

generatePromotions(fromSq, toSq) ==
    << Move(fromSq, toSq, QUEEN, NullPT), Move(fromSq, toSq, ROOK, NullPT),
       Move(fromSq, toSq, BISHOP, NullPT), Move(fromSq, toSq, KNIGHT, NullPT) >>

generatePawnMoves(b, fromSq, color) ==
    LET file == squareFile(fromSq)
        rank == squareRank(fromSq)
        direction == IF color = WHITE THEN 1 ELSE -1
        startRank == IF color = WHITE THEN 1 ELSE 6
        promotionRank == IF color = WHITE THEN 7 ELSE 0
        toSq == squareFromFileRank(file, rank + direction)
        toSq2 == squareFromFileRank(file, rank + 2 * direction)
        \* pieces[toSq] === null : an index outside the array is undefined, not null
        pushes ==
            IF IsSquare(toSq) /\ rank + direction >= 0 /\ b.pieces[toSq] = NoPiece
            THEN IF rank + direction = promotionRank THEN generatePromotions(fromSq, toSq)
                 ELSE <<Move(fromSq, toSq, NullPT, NullPT)>>
                      \o (IF rank = startRank /\ IsSquare(toSq2) /\ b.pieces[toSq2] = NoPiece
                          THEN <<Move(fromSq, toSq2, NullPT, NullPT)>> ELSE <<>>)
            ELSE <<>>
        Capture(df) ==
            LET captureFile == file + df
                captureSq == squareFromFileRank(captureFile, rank + direction)
                targetPiece == IF IsSquare(captureSq) /\ rank + direction >= 0
                               THEN b.pieces[captureSq] ELSE NoPiece
                isCapture == (targetPiece # NoPiece /\ targetPiece.color # color)
                             \/ captureSq = b.epSquare
            IN IF captureFile < 0 \/ captureFile > 7 THEN <<>>
               ELSE IF isCapture
               THEN IF rank + direction = promotionRank THEN generatePromotions(fromSq, captureSq)
                    ELSE <<Move(fromSq, captureSq, NullPT, NullPT)>>
               ELSE <<>>
    IN pushes \o Capture(-1) \o Capture(1)

\* One step target of a knight or king offset list.
StepMoves(b, fromSq, color, offsets) ==
    LET file == squareFile(fromSq)
        rank == squareRank(fromSq)
        One(i) ==
            LET toFile == file + offsets[i][1]
                toRank == rank + offsets[i][2]
                toSq == squareFromFileRank(toFile, toRank)
            IN IF ~OnBoard(toFile, toRank) THEN <<>>
               ELSE IF b.pieces[toSq] = NoPiece \/ b.pieces[toSq].color # color
               THEN <<Move(fromSq, toSq, NullPT, NullPT)>>
               ELSE <<>>
    IN Flatten([i \in 1..Len(offsets) |-> One(i)])

\* generateKnightMoves stepping by the king's offsets
generateKnightMoves_kingSteps(b, fromSq, color) == StepMoves(b, fromSq, color, KING_MOVES)
generateKnightMoves(b, fromSq, color) == StepMoves(b, fromSq, color, KNIGHT_MOVES)

RECURSIVE RayMoves(_, _, _, _, _, _)
RayMoves(b, fromSq, color, df, dr, dist) ==
    LET toFile == squareFile(fromSq) + df * dist
        toRank == squareRank(fromSq) + dr * dist
        toSq == squareFromFileRank(toFile, toRank)
    IN IF dist >= 8 \/ ~OnBoard(toFile, toRank) THEN <<>>
       ELSE IF b.pieces[toSq] = NoPiece
       THEN <<Move(fromSq, toSq, NullPT, NullPT)>> \o RayMoves(b, fromSq, color, df, dr, dist + 1)
       ELSE IF b.pieces[toSq].color # color THEN <<Move(fromSq, toSq, NullPT, NullPT)>>
       ELSE <<>>

generateSlidingMoves(b, fromSq, color, directions) ==
    Flatten([i \in 1..Len(directions) |->
                RayMoves(b, fromSq, color, directions[i][1], directions[i][2], 1)])

generateKingMoves(b, fromSq, color) ==
    LET normal == StepMoves(b, fromSq, color, KING_MOVES)
        Empty(sq) == b.pieces[sq] = NoPiece
        castling ==
            IF color = WHITE /\ fromSq = E1
            THEN (IF HasRight(b.castlingRights, CASTLING_WHITE_KINGSIDE) /\ Empty(F1) /\ Empty(G1)
                     /\ ~isAttacked(b, E1, BLACK) /\ ~isAttacked(b, F1, BLACK)
                  THEN <<Move(E1, G1, NullPT, NullPT)>> ELSE <<>>)
                 \o
                 (IF HasRight(b.castlingRights, CASTLING_WHITE_QUEENSIDE)
                     /\ Empty(D1) /\ Empty(C1) /\ Empty(squareFromFileRank(1, 0))
                     /\ ~isAttacked(b, E1, BLACK) /\ ~isAttacked(b, D1, BLACK)
                  THEN <<Move(E1, C1, NullPT, NullPT)>> ELSE <<>>)
            ELSE IF color = BLACK /\ fromSq = E8
            THEN (IF HasRight(b.castlingRights, CASTLING_BLACK_KINGSIDE) /\ Empty(F8) /\ Empty(G8)
                     /\ ~isAttacked(b, E8, WHITE) /\ ~isAttacked(b, F8, WHITE)
                  THEN <<Move(E8, G8, NullPT, NullPT)>> ELSE <<>>)
                 \o
                 (IF HasRight(b.castlingRights, CASTLING_BLACK_QUEENSIDE)
                     /\ Empty(D8) /\ Empty(C8) /\ Empty(squareFromFileRank(1, 7))
                     /\ ~isAttacked(b, E8, WHITE) /\ ~isAttacked(b, D8, WHITE)
                  THEN <<Move(E8, C8, NullPT, NullPT)>> ELSE <<>>)
            ELSE <<>>
    IN normal \o castling

\* pseudoLegalMoves(): in square order, each piece's moves in generator order.
pseudoLegalMoves(b) ==
    LET color == b.turn
        From(fromSq) ==
            LET piece == b.pieces[fromSq]
            IN IF piece = NoPiece \/ piece.color # color THEN <<>>
               ELSE CASE piece.pieceType = PAWN -> generatePawnMoves(b, fromSq, color)
                      [] piece.pieceType = KNIGHT -> generateKnightMoves(b, fromSq, color)
                      [] piece.pieceType = BISHOP -> generateSlidingMoves(b, fromSq, color, BISHOP_DIRECTIONS)
                      [] piece.pieceType = ROOK -> generateSlidingMoves(b, fromSq, color, ROOK_DIRECTIONS)
                      [] piece.pieceType = QUEEN -> generateSlidingMoves(b, fromSq, color, QUEEN_DIRECTIONS)
                      [] piece.pieceType = KING -> generateKingMoves(b, fromSq, color)
                      [] OTHER -> <<>>
    IN Flatten([i \in 1..64 |-> From(i - 1)])

\* isLegalMove without the test that the mover's king is left unattacked
isLegalMove_pushOnly(b, move) == ~pushThrows(copy(b), move)

\* isLegalMove(move): push on a copy; a throwing push means not legal.
isLegalMove(b, move) ==
    IF pushThrows(copy(b), move) THEN FALSE
    ELSE LET after == push(copy(b), move)
             kingSq == king(after, ~after.turn)
         IN ~(kingSq # NullSq /\ isAttacked(after, kingSq, after.turn))

\* legalMoves() without the filter
legalMoves_unfiltered(b) == pseudoLegalMoves(b)
legalMoves(b) == SelectSeq(pseudoLegalMoves(b), LAMBDA m : isLegalMove(b, m))

isCheck(b) == LET kingSq == king(b, b.turn)
              IN kingSq # NullSq /\ isAttacked(b, kingSq, ~b.turn)
\* isCheckmate without its isCheck() test
isCheckmate_noCheckTest(b) == legalMoves(b) = <<>>
isCheckmate(b) == isCheck(b) /\ legalMoves(b) = <<>>
isStalemate(b) == ~isCheck(b) /\ legalMoves(b) = <<>>

(***************************************************************************)
(* Board: FEN                                                              *)
(***************************************************************************)
\* One rank of the piece placement field.
RECURSIVE FenRow(_, _, _, _)
FenRow(b, rank, file, empty) ==
    IF file > 7 THEN (IF empty > 0 THEN IntToString(empty) ELSE <<>>)
    ELSE LET piece == b.pieces[squareFromFileRank(file, rank)]
         IN IF piece # NoPiece
            THEN (IF empty > 0 THEN IntToString(empty) ELSE <<>>)
                 \o <<symbol(piece)>> \o FenRow(b, rank, file + 1, 0)
            ELSE FenRow(b, rank, file + 1, empty + 1)

\* fen(): the six parts joined by blanks.  squareName of an epSquare that is
\* no index of SQUARE_NAMES is undefined, which join renders as the empty text.
fen(b) ==
    LET rows == [i \in 1..8 |-> FenRow(b, 8 - i, 0, 0)]
        castling == (IF HasRight(b.castlingRights, CASTLING_WHITE_KINGSIDE) THEN <<"K">> ELSE <<>>)
                    \o (IF HasRight(b.castlingRights, CASTLING_WHITE_QUEENSIDE) THEN <<"Q">> ELSE <<>>)
                    \o (IF HasRight(b.castlingRights, CASTLING_BLACK_KINGSIDE) THEN <<"k">> ELSE <<>>)
                    \o (IF HasRight(b.castlingRights, CASTLING_BLACK_QUEENSIDE) THEN <<"q">> ELSE <<>>)
        parts == << Join(rows, <<"/">>),
                    IF b.turn = WHITE THEN <<"w">> ELSE <<"b">>,
                    IF castling = <<>> THEN <<"-">> ELSE castling,
                    IF b.epSquare # NullSq
                    THEN (IF IsSquare(b.epSquare) THEN squareName(b.epSquare) ELSE <<>>)
                    ELSE <<"-">>,
                    IntToString(b.halfmoveClock),
                    IntToString(b.fullmoveNumber) >>
    IN Join(parts, <<" ">>)

NoPieces == [sq \in SQUARES |-> NoPiece]

\* The placement loop of setFen over one row; ok turns FALSE where
\* Piece.fromSymbol throws, and nothing after that point is placed.
RECURSIVE PlaceRow(_, _, _, _, _)
PlaceRow(acc, row, i, file, rank) ==
    IF i > Len(row) \/ ~acc.ok THEN acc
    ELSE LET c == row[i]
         IN IF IndexOf(RANK_NAMES, c) > 0
            THEN PlaceRow(acc, row, i + 1, file + IndexOf(RANK_NAMES, c), rank)
            ELSE IF fromSymbol(c) = NoPiece THEN [acc EXCEPT !.ok = FALSE]
            ELSE LET sq == squareFromFileRank(file, rank)
                 IN PlaceRow([acc EXCEPT !.pieces = IF IsSquare(sq)
                                                    THEN [@ EXCEPT ![sq] = fromSymbol(c)] ELSE @],
                             row, i + 1, file + 1, rank)

RECURSIVE PlaceRows(_, _, _)
PlaceRows(acc, rows, rank) ==
    IF rank < 0 \/ ~acc.ok THEN acc
    ELSE PlaceRows(PlaceRow(acc, rows[8 - rank], 1, 0, rank), rows, rank - 1)

RECURSIVE CastlingBits(_, _, _)
CastlingBits(text, i, acc) ==
    IF i > Len(text) THEN acc
    ELSE LET c == text[i]
             bit == IF c = "K" THEN CASTLING_WHITE_KINGSIDE
                    ELSE IF c = "Q" THEN CASTLING_WHITE_QUEENSIDE
                    ELSE IF c = "k" THEN CASTLING_BLACK_KINGSIDE
                    ELSE IF c = "q" THEN CASTLING_BLACK_QUEENSIDE
                    ELSE 0
         IN CastlingBits(text, i + 1, IF bit > 0 /\ ~HasRight(acc, bit) THEN acc + bit ELSE acc)

\* setFen(fen) throws "Invalid FEN" / "Invalid piece symbol".
setFenThrows(fenText) ==
    LET parts == SplitBlanks(fenText)
        rows == Split(parts[1], "/")
    IN Len(rows) # 8 \/ ~PlaceRows([pieces |-> NoPieces, ok |-> TRUE], rows, 7).ok

\* The board after setFen(fen).  The board and the undo stack are cleared
\* before the first check, so they stay cleared when setFen throws.
setFen(b, fenText) ==
    LET parts == SplitBlanks(fenText)
        rows == Split(parts[1], "/")
        cleared == [b EXCEPT !.pieces = NoPieces, !.moveStack = <<>>]
        placed == PlaceRows([pieces |-> NoPieces, ok |-> TRUE], rows, 7)
    IN IF Len(rows) # 8 THEN cleared
       ELSE IF ~placed.ok THEN [cleared EXCEPT !.pieces = placed.pieces]
       ELSE [cleared EXCEPT
               !.pieces = placed.pieces,
               !.turn = IF Len(parts) > 1 /\ parts[2] = <<"b">> THEN BLACK ELSE WHITE,
               !.castlingRights = IF Len(parts) > 2 /\ parts[3] # <<"-">>
                                  THEN CastlingBits(parts[3], 1, 0) ELSE 0,
               !.epSquare = IF Len(parts) > 3 /\ parts[4] # <<"-">> THEN parseSquare(parts[4]) ELSE NullSq,
               !.halfmoveClock = IF Len(parts) > 4 THEN parseIntOr(parts[5], 0) ELSE 0,
               !.fullmoveNumber = IF Len(parts) > 5 THEN parseIntOr(parts[6], 1) ELSE 1]

\* The fields the constructor sets before it calls setFen.
BlankBoard ==
    [pieces |-> NoPieces, turn |-> WHITE, castlingRights |-> 0, epSquare |-> NullSq,
     halfmoveClock |-> 0, fullmoveNumber |-> 1, moveStack |-> <<>>]

\* removePieceAt(square): the board afterwards
removePieceAt(b, square) == [b EXCEPT !.pieces[square] = NoPiece]

\* new Board(fen)
NewBoard(fenText) == setFen(BlankBoard, fenText)

(***************************************************************************)
(* Board: SAN parsing                                                      *)
(***************************************************************************)
\* san.replace(/[+#!?]+$/, '')
RECURSIVE StripSuffix(_)
StripSuffix(s) ==
    IF Len(s) > 0 /\ s[Len(s)] \in {"+", "#", "!", "?"} THEN StripSuffix(SubSeq(s, 1, Len(s) - 1)) ELSE s

RECURSIVE Trim(_)
Trim(s) ==
    IF Len(s) > 0 /\ s[1] = " " THEN Trim(Tail(s))
    ELSE IF Len(s) > 0 /\ s[Len(s)] = " " THEN Trim(SubSeq(s, 1, Len(s) - 1))
    ELSE s

\* s.replace(/x/i, ''): the first x or X is removed.
RemoveFirstX(s) ==
    LET hits == {i \in 1..Len(s) : s[i] \in {"x", "X"}}
    IN IF hits = {} THEN s
       ELSE LET i == CHOOSE k \in hits : \A j \in hits : k <= j
            IN SubSeq(s, 1, i - 1) \o SubSeq(s, i + 1, Len(s))

\* The last value a loop over the characters of s assigns from the list names.
LastIndexIn(s, names) ==
    LET hits == {i \in 1..Len(s) : IndexOf(names, s[i]) > 0}
    IN IF hits = {} THEN -1
       ELSE IndexOf(names, s[CHOOSE k \in hits : \A j \in hits : k >= j]) - 1

FirstMatch(moves, Test(_)) ==
    LET hits == {i \in 1..Len(moves) : Test(moves[i])}
    IN IF hits = {} THEN NoMove ELSE moves[CHOOSE k \in hits : \A j \in hits : k <= j]

\* parseSan(san): the Move returned, NoMove where it throws.
parseSan(b, sanText) ==
    LET s0 == Trim(StripSuffix(sanText))
        kingFrom == IF b.turn = WHITE THEN E1 ELSE E8
        promChar == IF Len(s0) > 0 THEN toLowerCase(s0[Len(s0)]) ELSE ""
        hasProm == Len(s0) > 0 /\ promChar \in {"q", "r", "b", "n"}
        promotion == IF ~hasProm THEN NullPT
                     ELSE IF promChar = "q" THEN QUEEN
                     ELSE IF promChar = "r" THEN ROOK
                     ELSE IF promChar = "b" THEN BISHOP
                     ELSE KNIGHT
        s1 == IF ~hasProm THEN s0
              ELSE IF Len(s0) > 1 /\ s0[Len(s0) - 1] = "=" THEN SubSeq(s0, 1, Len(s0) - 2)
              ELSE SubSeq(s0, 1, Len(s0) - 1)
        toName == IF Len(s1) >= 2 THEN SubSeq(s1, Len(s1) - 1, Len(s1)) ELSE s1
        toSquare == parseSquare(toName)
        s2 == RemoveFirstX(SubSeq(s1, 1, Len(s1) - 2))
        hasPiece == Len(s2) > 0 /\ s2[1] \in {"K", "Q", "R", "B", "N"}
        pieceType == IF hasPiece THEN IndexOf(UPPER_SYMBOLS, s2[1]) ELSE PAWN
        s3 == IF hasPiece THEN Tail(s2) ELSE s2
        disambigFile == LastIndexIn(s3, FILE_NAMES)
        disambigRank == LastIndexIn(s3, RANK_NAMES)
        Matches(move) ==
            /\ b.pieces[move.fromSquare] # NoPiece
            /\ b.pieces[move.fromSquare].pieceType = pieceType
            /\ move.toSquare = toSquare
            /\ move.promotion = promotion
            /\ (disambigFile # -1 => squareFile(move.fromSquare) = disambigFile)
            /\ (disambigRank # -1 => squareRank(move.fromSquare) = disambigRank)
    IN IF s0 \in {<<"O", "-", "O">>, <<"0", "-", "0">>}
       THEN Move(kingFrom, IF b.turn = WHITE THEN G1 ELSE G8, NullPT, NullPT)
       ELSE IF s0 \in {<<"O", "-", "O", "-", "O">>, <<"0", "-", "0", "-", "0">>}
       THEN Move(kingFrom, IF b.turn = WHITE THEN C1 ELSE C8, NullPT, NullPT)
       ELSE IF s0 \in {<<"-", "-">>, <<"Z", "0">>} THEN MoveNull
       ELSE IF toSquare = NullSq THEN NoMove
       ELSE FirstMatch(legalMoves(b), Matches)

(***************************************************************************)
(* Board: SAN rendering                                                    *)
(***************************************************************************)
SAN_PIECE_LETTERS == <<"", "", "N", "B", "R", "Q", "K">>
SAN_PROMOTION_LETTERS == <<"", "", "N", "B", "R", "Q">>
\* a one-character text, or the empty text for ''
Chars(c) == IF c = "" THEN <<>> ELSE <<c>>

sanThrows(b, move) == b.pieces[move.fromSquare] = NoPiece

\* san() that finds no other move to tell the move from
sanOthers_none(b, move) == {}

\* The legal moves san() counts against move: another origin, the same
\* destination, a piece of the same type.
sanOthers(b, move) ==
    {other \in SeqToSet(legalMoves(b)) :
        /\ other.toSquare = move.toSquare
        /\ other.fromSquare # move.fromSquare
        /\ b.pieces[other.fromSquare] # NoPiece
        /\ b.pieces[other.fromSquare].pieceType = b.pieces[move.fromSquare].pieceType}

\* san(move): the text, for a move whose origin holds a piece.
san(b, move) ==
    LET piece == b.pieces[move.fromSquare]
        fileDiff == squareFile(move.toSquare) - squareFile(move.fromSquare)
        needRank == \E other \in sanOthers(b, move) :
                        squareFile(other.fromSquare) = squareFile(move.fromSquare)
        needFile == \E other \in sanOthers(b, move) :
                        squareFile(other.fromSquare) # squareFile(move.fromSquare)
        fileName == FILE_NAMES[squareFile(move.fromSquare) + 1]
        isCapture == \/ b.pieces[move.toSquare] # NoPiece
                     \/ (piece.pieceType = PAWN /\ move.toSquare = b.epSquare)
        after == push(copy(b), move)
    IN IF piece.pieceType = KING /\ fileDiff = 2 THEN <<"O", "-", "O">>
       ELSE IF piece.pieceType = KING /\ fileDiff = -2 THEN <<"O", "-", "O", "-", "O">>
       ELSE (IF piece.pieceType # PAWN THEN Chars(SAN_PIECE_LETTERS[piece.pieceType + 1]) ELSE <<>>)
            \o (IF piece.pieceType # PAWN /\ needFile THEN <<fileName>> ELSE <<>>)
            \o (IF piece.pieceType # PAWN /\ needRank
                THEN IntToString(squareRank(move.fromSquare) + 1) ELSE <<>>)
            \o (IF isCapture
                THEN (IF piece.pieceType = PAWN THEN <<fileName>> ELSE <<>>) \o <<"x">>
                ELSE <<>>)
            \o squareName(move.toSquare)
            \o (IF move.promotion # NullPT
                THEN <<"=">> \o (IF move.promotion + 1 <= Len(SAN_PROMOTION_LETTERS)
                                 THEN Chars(SAN_PROMOTION_LETTERS[move.promotion + 1])
                                 ELSE UNDEFINED_TEXT)
                ELSE <<>>)
            \o (IF isCheck(after) THEN (IF isCheckmate(after) THEN <<"#">> ELSE <<"+">>) ELSE <<>>)

(***************************************************************************)
(* Positions the specifications start from, as FEN text                    *)
(***************************************************************************)
\* STARTING_FEN (chess/types.ts): rnbqkbnr/pppppppp/8/8/8/8/PPPPPPPP/RNBQKBNR w KQkq - 0 1
STARTING_FEN ==
    <<"r", "n", "b", "q", "k", "b", "n", "r", "/", "p", "p", "p", "p", "p", "p", "p", "p", "/", "8", "/", "8", "/", "8", "/", "8", "/", "P", "P", "P", "P", "P", "P", "P", "P", "/", "R", "N", "B", "Q", "K", "B", "N", "R", " ", "w", " ", "K", "Q", "k", "q", " ", "-", " ", "0", " ", "1">>
\* both sides may castle on both wings: r3k2r/8/8/8/8/8/8/R3K2R w KQkq - 0 1
CASTLE_FEN ==
    <<"r", "3", "k", "2", "r", "/", "8", "/", "8", "/", "8", "/", "8", "/", "8", "/", "8", "/", "R", "3", "K", "2", "R", " ", "w", " ", "K", "Q", "k", "q", " ", "-", " ", "0", " ", "1">>
\* white may capture en passant on d6 and promote on a8: 4k3/P7/8/3pP3/8/8/8/4K3 w - d6 0 1
EP_FEN ==
    <<"4", "k", "3", "/", "P", "7", "/", "8", "/", "3", "p", "P", "3", "/", "8", "/", "8", "/", "8", "/", "4", "K", "3", " ", "w", " ", "-", " ", "d", "6", " ", "0", " ", "1">>

\* white may castle short, capture en passant on d6, promote on a8: 4k3/P7/8/3pP3/8/8/6P1/4K2R w K d6 0 1
KP_FEN ==
    <<"4", "k", "3", "/", "P", "7", "/", "8", "/", "3", "p", "P", "3", "/", "8", "/", "8", "/", "6", "P", "1", "/", "4", "K", "2", "R", " ", "w", " ", "K", " ", "d", "6", " ", "0", " ", "1">>
\* black to move, may castle long: r3k3/8/8/8/8/8/8/4K2R b Kq - 3 10
RK_FEN ==
    <<"r", "3", "k", "3", "/", "8", "/", "8", "/", "8", "/", "8", "/", "8", "/", "8", "/", "4", "K", "2", "R", " ", "b", " ", "K", "q", " ", "-", " ", "3", " ", "1", "0">>

\* three white knights, two of them on the b-file: 7k/8/8/8/8/1N3N2/8/1N5K w - - 0 1
KNIGHTS_FEN ==
    <<"7", "k", "/", "8", "/", "8", "/", "8", "/", "8", "/", "1", "N", "3", "N", "2", "/", "8", "/", "1", "N", "5", "K", " ", "w", " ", "-", " ", "-", " ", "0", " ", "1">>
\* two white rooks on the a-file: 4k3/8/8/R7/8/8/4K3/R7 w - - 0 1
ROOKS_FEN ==
    <<"4", "k", "3", "/", "8", "/", "8", "/", "R", "7", "/", "8", "/", "8", "/", "4", "K", "3", "/", "R", "7", " ", "w", " ", "-", " ", "-", " ", "0", " ", "1">>

\* white may castle on both wings, a black rook on f8 attacks f1: r3kr2/8/8/8/8/8/8/R3K2R w KQq - 0 1
F1_ATTACKED_FEN ==
    <<"r", "3", "k", "r", "2", "/", "8", "/", "8", "/", "8", "/", "8", "/", "8", "/", "8", "/", "R", "3", "K", "2", "R", " ", "w", " ", "K", "Q", "q", " ", "-", " ", "0", " ", "1">>
\* white may castle on both wings, a black bishop on c5 attacks g1: 4k3/8/8/2b5/8/8/8/R3K2R w KQ - 0 1
G1_ATTACKED_FEN ==
    <<"4", "k", "3", "/", "8", "/", "8", "/", "2", "b", "5", "/", "8", "/", "8", "/", "8", "/", "R", "3", "K", "2", "R", " ", "w", " ", "K", "Q", " ", "-", " ", "0", " ", "1">>
\* black to move has no legal move and is not in check: 7k/5Q2/6K1/8/8/8/8/8 b - - 0 1
STALEMATE_FEN ==
    <<"7", "k", "/", "5", "Q", "2", "/", "6", "K", "1", "/", "8", "/", "8", "/", "8", "/", "8", "/", "8", " ", "b", " ", "-", " ", "-", " ", "0", " ", "1">>
\* white mates with Ra8: 6k1/5ppp/8/8/8/8/8/R3K3 w Q - 0 1
BACK_RANK_FEN ==
    <<"6", "k", "1", "/", "5", "p", "p", "p", "/", "8", "/", "8", "/", "8", "/", "8", "/", "8", "/", "R", "3", "K", "3", " ", "w", " ", "Q", " ", "-", " ", "0", " ", "1">>

\* black to move with a pawn on a7, three half-moves since the last capture: 4k3/p7/8/8/8/8/8/4K3 b - - 3 10
BLACK_PAWN_FEN ==
    <<"4", "k", "3", "/", "p", "7", "/", "8", "/", "8", "/", "8", "/", "8", "/", "8", "/", "4", "K", "3", " ", "b", " ", "-", " ", "-", " ", "3", " ", "1", "0">>

\* SAN texts
SAN_e4 == <<"e", "4">>
SAN_e5 == <<"e", "5">>
SAN_c5 == <<"c", "5">>
SAN_Nf3 == <<"N", "f", "3">>
SAN_Ke2 == <<"K", "e", "2">>
SAN_OO == <<"O", "-", "O">>
SAN_OOO == <<"O", "-", "O", "-", "O">>
SAN_00 == <<"0", "-", "0">>
SAN_000 == <<"0", "-", "0", "-", "0">>
SAN_exd6 == <<"e", "x", "d", "6">>
SAN_a8Q == <<"a", "8", "=", "Q", "+">>
SAN_null == <<"-", "-">>
SAN_Z0 == <<"Z", "0">>
SAN_d4 == <<"d", "4">>
SAN_Ke7 == <<"K", "e", "7">>
SAN_Nc6 == <<"N", "c", "6">>
SAN_Nf6 == <<"N", "f", "6">>
SAN_Nxe5 == <<"N", "x", "e", "5">>
SAN_Bc4 == <<"B", "c", "4">>
SAN_Nxe4 == <<"N", "x", "e", "4">>
SAN_Bb5 == <<"B", "b", "5">>
SAN_cxd4 == <<"c", "x", "d", "4">>
SAN_d6 == <<"d", "6">>
SAN_Nd2 == <<"N", "d", "2">>
SAN_Nbd2 == <<"N", "b", "d", "2">>
SAN_f3 == <<"f", "3">>
SAN_g4 == <<"g", "4">>
SAN_Qh4 == <<"Q", "h", "4">>

(***************************************************************************)
(* GameNode (pgn/game-node.ts) and Game (pgn/game.ts)                      *)
(*                                                                         *)
(* Nodes are numbered in the order they are constructed; node 0 is the     *)
(* Game.  Board objects live in a heap of numbered objects, so that two    *)
(* references to one Board can be told from two equal Boards.              *)
(***************************************************************************)
NullNode == -1
NullId == 0
\* headers.get('FEN') of a Game without a FEN header
NoFen == <<>>

\* new Game(): a root without children and without a cached board
NewGame(headerFen) ==
    [size |-> 1,
     parent |-> [n \in {0} |-> NullNode],
     move |-> [n \in {0} |-> NoMove],
     variations |-> [n \in {0} |-> <<>>],
     cache |-> [n \in {0} |-> NullId],
     valid |-> [n \in {0} |-> FALSE],
     headerFen |-> headerFen]

Nodes(t) == 0..(t.size - 1)

\* new GameNode() with parent and move set, appended to no list yet
Extend(f, k, v) == [i \in (DOMAIN f) \cup {k} |-> IF i = k THEN v ELSE f[i]]
NewNode(t, parent, move) ==
    [size |-> t.size + 1,
     parent |-> Extend(t.parent, t.size, parent),
     move |-> Extend(t.move, t.size, move),
     variations |-> Extend(t.variations, t.size, <<>>),
     cache |-> Extend(t.cache, t.size, NullId),
     valid |-> Extend(t.valid, t.size, FALSE),
     headerFen |-> t.headerFen]

\* getStartingFen(): the Game answers with its FEN header, any other root
\* with the standard starting position.
RECURSIVE getStartingFen(_, _)
getStartingFen(t, n) ==
    IF t.parent[n] # NullNode THEN getStartingFen(t, t.parent[n])
    ELSE IF n = 0 /\ t.headerFen # NoFen THEN t.headerFen
    ELSE STARTING_FEN

\* The number of a new object: the smallest number not in use for a Board
\* that is handed out, and a number of its own for each node's cached Board.
CacheId(n) == 100 + n
NewId(h) == CHOOSE i \in 1..(Cardinality(DOMAIN h) + 1) :
                i \notin DOMAIN h /\ \A j \in 1..(i - 1) : j \in DOMAIN h

Store(h, id, b) == Extend(h, id, b)

\* The objects still referenced by a node's cache or by the caller.
Collect(t, h, keep) ==
    [i \in {j \in DOMAIN h : j \in keep \/ \E n \in Nodes(t) : t.cache[n] = j} |-> h[i]]

\* board() handing out the cached Board itself instead of a copy of it
cachedBoard_sameObject(h, cacheId) == [heap |-> h, ret |-> cacheId]

\* The Board a valid cache hands out: a copy, a new object.
cachedBoard(h, cacheId) ==
    LET id == NewId(h) IN [heap |-> Store(h, id, copy(h[cacheId])), ret |-> id]

\* What node n keeps of a freshly built board: a copy, a new object.
cacheOf(h, boardId, n) ==
    [heap |-> Store(h, CacheId(n), copy(h[boardId])), ret |-> CacheId(n)]

\* node.board(): the tree and heap after the call, the object returned, and
\* whether the call threw (push throws when the move's origin is empty).
RECURSIVE boardCall(_, _, _)
boardCall(t, h, n) ==
    IF t.valid[n] /\ t.cache[n] # NullId
    THEN LET c == cachedBoard(h, t.cache[n])
         IN [tree |-> t, heap |-> c.heap, ret |-> c.ret, threw |-> FALSE]
    ELSE LET built ==
                 IF t.parent[n] = NullNode
                 THEN LET id == NewId(h)
                      IN [tree |-> t, heap |-> Store(h, id, NewBoard(getStartingFen(t, n))),
                          ret |-> id, threw |-> FALSE]
                 ELSE LET r == boardCall(t, h, t.parent[n])
                      IN IF r.threw THEN r
                         ELSE [tree |-> r.tree,
                               heap |-> Store(r.heap, r.ret, push(r.heap[r.ret], t.move[n])),
                               ret |-> r.ret,
                               threw |-> pushThrows(r.heap[r.ret], t.move[n])]
         IN IF built.threw THEN [built EXCEPT !.ret = NullId]
            ELSE LET c == cacheOf(built.heap, built.ret, n)
                 IN [tree |-> [built.tree EXCEPT !.cache[n] = c.ret, !.valid[n] = TRUE],
                     heap |-> c.heap, ret |-> built.ret, threw |-> FALSE]

\* addVariation(move): a new last child
addVariation(t, n, move) ==
    [NewNode(t, n, move) EXCEPT !.variations[n] = Append(@, t.size)]

\* addMainVariation(move): a new first child
addMainVariation(t, n, move) ==
    [NewNode(t, n, move) EXCEPT !.variations[n] = <<t.size>> \o @]

\* addLine(moves): each move a new last child of the node before it
RECURSIVE addLine(_, _, _)
addLine(t, n, moves) ==
    IF moves = <<>> THEN t
    ELSE addLine(addVariation(t, n, Head(moves)), t.size, Tail(moves))

RemoveAt(s, i) == SubSeq(s, 1, i - 1) \o SubSeq(s, i + 1, Len(s))
Swap(s, i, j) == [s EXCEPT ![i] = s[j], ![j] = s[i]]

\* removeVariation() that leaves the removed node's parent pointer in place
removeVariation_keepsParent(t, n, variation) ==
    LET idx == IndexOf(t.variations[n], variation)
    IN IF idx = 0 THEN t
       ELSE [t EXCEPT !.variations[n] = RemoveAt(@, idx)]

\* removeVariation(variation): splice it out and clear its parent
removeVariation(t, n, variation) ==
    LET idx == IndexOf(t.variations[n], variation)
    IN IF idx = 0 THEN t
       ELSE [t EXCEPT !.variations[n] = RemoveAt(@, idx), !.parent[variation] = NullNode]

\* promote(): swap with the sibling before
promote(t, n) ==
    IF t.parent[n] = NullNode THEN t
    ELSE LET idx == IndexOf(t.variations[t.parent[n]], n)
         IN IF idx > 1 THEN [t EXCEPT !.variations[t.parent[n]] = Swap(@, idx - 1, idx)] ELSE t

\* demote(): swap with the sibling after
demote(t, n) ==
    IF t.parent[n] = NullNode THEN t
    ELSE LET idx == IndexOf(t.variations[t.parent[n]], n)
         IN IF idx >= 1 /\ idx < Len(t.variations[t.parent[n]])
            THEN [t EXCEPT !.variations[t.parent[n]] = Swap(@, idx, idx + 1)] ELSE t

\* promoteToMain() that swaps the node with the first sibling
promoteToMain_swap(t, n) ==
    IF t.parent[n] = NullNode THEN t
    ELSE LET idx == IndexOf(t.variations[t.parent[n]], n)
         IN IF idx > 1 THEN [t EXCEPT !.variations[t.parent[n]] = Swap(@, 1, idx)] ELSE t

\* promoteToMain(): move to the front of the parent's list
promoteToMain(t, n) ==
    IF t.parent[n] = NullNode THEN t
    ELSE LET idx == IndexOf(t.variations[t.parent[n]], n)
         IN IF idx > 1 THEN [t EXCEPT !.variations[t.parent[n]] = <<n>> \o RemoveAt(@, idx)] ELSE t

\* isMainline() that tests the last step only, as isMainVariation() does
isMainline_lastStep(t, n) ==
    t.parent[n] = NullNode
    \/ (t.variations[t.parent[n]] # <<>> /\ t.variations[t.parent[n]][1] = n)

\* isMainline(): walk up; false at the first node that is not variations[0]
\* of its parent
RECURSIVE isMainline(_, _)
isMainline(t, n) ==
    IF t.parent[n] = NullNode THEN TRUE
    ELSE IF t.variations[t.parent[n]] = <<>> \/ t.variations[t.parent[n]][1] # n THEN FALSE
    ELSE isMainline(t, t.parent[n])

\* root(): walk up to the node without a parent
RECURSIVE root(_, _)
root(t, n) == IF t.parent[n] = NullNode THEN n ELSE root(t, t.parent[n])

\* end(): follow variations[0] to a node without variations
RECURSIVE end(_, _)
end(t, n) == IF t.variations[n] = <<>> THEN n ELSE end(t, t.variations[n][1])

\* next(): variations[0] ?? null
next(t, n) == IF t.variations[n] = <<>> THEN NullNode ELSE t.variations[n][1]

\* [...mainline()]: next(), then its next(), until there is none
RECURSIVE mainline(_, _)
mainline(t, n) == IF next(t, n) = NullNode THEN <<>> ELSE <<next(t, n)>> \o mainline(t, next(t, n))

\* The position a replay without any cache gives: the starting position of
\* the node's current root, then the moves on the path down to the node.
RECURSIVE replay(_, _)
replay(t, n) ==
    IF t.parent[n] = NullNode
    THEN [threw |-> FALSE, board |-> NewBoard(getStartingFen(t, n))]
    ELSE LET r == replay(t, t.parent[n])
         IN IF r.threw THEN r
            ELSE [threw |-> pushThrows(r.board, t.move[n]), board |-> push(r.board, t.move[n])]

\* countNodes(): 1 for the node, plus countNodes() of each variation
RECURSIVE countNodes(_, _)
RECURSIVE countNodesOf(_, _, _)
countNodesOf(t, children, i) ==
    IF i > Len(children) THEN 0
    ELSE countNodes(t, children[i]) + countNodesOf(t, children, i + 1)
countNodes(t, n) == 1 + countNodesOf(t, t.variations[n], 1)

(***************************************************************************)
(* The tree builder (pgn/tree-builder.ts)                                  *)
(***************************************************************************)
\* An element of the upstream parser's moves array: a result token (a
\* string), or a record with its notation fields and its variations.
ResultToken == [isString |-> TRUE, notation |-> <<>>, fig |-> "", col |-> "", row |-> "",
                disc |-> <<>>, promotion |-> <<>>, drop |-> FALSE, variations |-> <<>>]
PgnMove(notation, fig, col, row, disc, promotion, drop, variations) ==
    [isString |-> FALSE, notation |-> notation, fig |-> fig, col |-> col, row |-> row,
     disc |-> disc, promotion |-> promotion, drop |-> drop, variations |-> variations]

\* { 'P': 1, 'N': 2, 'B': 3, 'R': 4, 'Q': 5, 'K': 6 }[fig]; 0 where the
\* letter is no key of the object.
FigType(fig) == IndexOf(UPPER_SYMBOLS, fig)

\* try { return first } catch { return second }, and the throw that is left
\* when neither gave a move
OrElse(firstMove, secondMove) == IF firstMove # NoMove THEN firstMove ELSE secondMove
OrThrew(move) == IF move = NoMove THEN Threw ELSE Returned(move)

\* parseMove(pgnMove, board): the move, or threw.  The null-move tokens, the
\* castling notations (handed to parseSan as O-O and O-O-O) and drops come
\* first; any other text goes to parseSan and, where that throws, to the
\* search of legalMoves() by the notation fields.
parseMove(pgnMove, b) ==
    LET text == pgnMove.notation
        toSquare == parseSquare(<<pgnMove.col, pgnMove.row>>)
        expectedPiece == IF pgnMove.fig # "" THEN FigType(pgnMove.fig) ELSE PAWN
        disc == pgnMove.disc
        discFile == IF disc # <<>> THEN IndexOf(FILE_NAMES, disc[1]) ELSE 0
        discRank == IF disc # <<>> /\ ~parseInt(disc).nan THEN parseInt(disc).value ELSE 0
        promPiece == IF pgnMove.promotion = <<>> THEN ""
                     ELSE LET p == SelectSeq(pgnMove.promotion, LAMBDA c : c # "=")
                          IN IF Len(p) = 1 THEN toUpperCase(p[1]) ELSE "?"
        promType == IF promPiece = "N" THEN KNIGHT ELSE IF promPiece = "B" THEN BISHOP
                    ELSE IF promPiece = "R" THEN ROOK ELSE IF promPiece = "Q" THEN QUEEN
                    ELSE -1
        Fits(move) ==
            /\ move.toSquare = toSquare
            /\ b.pieces[move.fromSquare] # NoPiece
            /\ b.pieces[move.fromSquare].pieceType = expectedPiece
            /\ (discFile > 0 => squareFile(move.fromSquare) = discFile - 1)
            /\ (discRank \in 1..8 => squareRank(move.fromSquare) = discRank - 1)
            /\ IF pgnMove.promotion # <<>> THEN move.promotion = promType
               ELSE move.promotion = NullPT
        castling == IF text \in {<<"O", "-", "O">>, <<"0", "-", "0">>} THEN <<"O", "-", "O">>
                    ELSE IF text \in {<<"O", "-", "O", "-", "O">>, <<"0", "-", "0", "-", "0">>}
                    THEN <<"O", "-", "O", "-", "O">>
                    ELSE <<>>
    IN IF text \in {<<"Z", "0">>, <<"-", "-">>} THEN Returned(MoveNull)
       ELSE IF castling = <<>> /\ pgnMove.drop
       THEN IF toSquare = NullSq THEN Threw
            ELSE Returned(Move(0, toSquare, NullPT,
                               IF pgnMove.fig # "" THEN FigType(pgnMove.fig) ELSE PAWN))
       ELSE OrThrew(OrElse(parseSan(b, IF castling # <<>> THEN castling ELSE text),
                           IF castling # <<>> \/ toSquare = NullSq THEN NoMove
                           ELSE FirstMatch(legalMoves(b), Fits)))

\* An activation of buildMoveTree: currentNode, currentBoard, the moves and
\* the index of the next one; and, while the variations of a move are being
\* built, the node made for that move, the FEN before it and the variation
\* groups still to build.  place is where moves sits in the parse tree.
Frame(node, b, moves, place) ==
    [node |-> node, board |-> b, moves |-> moves, i |-> 1, place |-> place,
     newNode |-> NullNode, fenBefore |-> <<>>, pending |-> <<>>]

\* The groups of pgnMove.variations that are built: the non-empty ones.
Groups(pgnMove) ==
    SelectSeq([g \in 1..Len(pgnMove.variations) |-> [index |-> g, moves |-> pgnMove.variations[g]]],
              LAMBDA v : v.moves # <<>>)

\* The variation built under the node made for the current move.
variationParent_child(frame) == frame.newNode

\* The node a variation of the current move is built under: currentNode,
\* which is still the parent of the node made for the current move.
variationParent(frame) == frame.node

\* new Board(headers.get('FEN')): the standard position without a FEN header
startingBoard(headerFen) == NewBoard(IF headerFen = NoFen THEN STARTING_FEN ELSE headerFen)

(***************************************************************************)
(* State                                                                   *)
(***************************************************************************)
VARIABLES
    board,      \* the Board object under test
    shadow,     \* for each push not yet popped: the fields before it and its move
    last,       \* the last Board operation: its name, argument, result
    depth,      \* pushes applied to the board and not undone since it was made
    uciPhase,   \* where the UCI round trip stands
    uciMove,    \* the Move of the UCI round trip
    uciText,    \* the UCI text of the round trip
    uciOut,     \* the value the round trip ends with
    tree,       \* the GameNode objects: parent, move, variations, _board, _boardValid
    heap,       \* the Board objects that GameNode.board() made and that are still referenced
    held,       \* the Board the caller was handed last, and the node that handed it out
    first,      \* per node, the position its first board() or fen() gave
    askedAgain, \* since the caller's last change: was a node asked for its position again
    edits,      \* how often the caller changed the board it holds
    input,      \* the parse tree handed to buildGameTree
    stack,      \* the activations of buildMoveTree, innermost last
    errors,     \* game.errors
    buildStatus,\* idle, running, done, or threw when an exception left buildGameTree
    origin      \* per node, the place in the parse tree of the record it was made from

boardVars == <<board, shadow, last, depth>>
uciVars == <<uciPhase, uciMove, uciText, uciOut>>
treeVars == <<tree, heap, held, first, askedAgain, edits>>
buildVars == <<input, stack, errors, buildStatus, origin>>
vars == <<board, shadow, last, depth, uciPhase, uciMove, uciText, uciOut,
          tree, heap, held, first, askedAgain, edits,
          input, stack, errors, buildStatus, origin>>

\* The longest sequence of pushes explored on one board.
MaxPly == 2

NoLast == [op |-> "new", arg |-> <<>>, move |-> NoMove, before |-> Fields(BlankBoard)]

IdleBoard == board = BlankBoard /\ shadow = <<>> /\ last = NoLast /\ depth = 0
IdleUci == uciPhase = "idle" /\ uciMove = NoMove /\ uciText = <<>> /\ uciOut = [threw |-> FALSE, move |-> NoMove, text |-> <<>>]

\* The most nodes one tree run constructs.
MaxTreeNodes == 3
TreeIds == 0..(MaxTreeNodes - 1)

EmptyHeap == [i \in {} |-> BlankBoard]
NoFirst == [set |-> FALSE, fields |-> Fields(BlankBoard)]
NotHeld == [id |-> NullId, node |-> NullNode]

IdleTree ==
    /\ tree = NewGame(NoFen)
    /\ heap = EmptyHeap
    /\ held = NotHeld
    /\ first = [n \in TreeIds |-> NoFirst]
    /\ askedAgain = FALSE
    /\ edits = 0

NoInput == [fen |-> NoFen, moves |-> <<>>]
IdleBuild ==
    /\ input = NoInput
    /\ stack = <<>>
    /\ errors = <<>>
    /\ buildStatus = "idle"
    /\ origin = <<>>

(***************************************************************************)
(* Board operations                                                        *)
(***************************************************************************)
InitFens == {KP_FEN, RK_FEN}

\* Moves handed to push without asking legalMoves: g2h4 (a pawn two ranks up
\* and one file across), d1d2 (from an empty square).
RawMoves == {Move(14, 31, NullPT, NullPT), Move(3, 11, NullPT, NullPT)}

InitBoard ==
    /\ \E f \in InitFens : board = NewBoard(f)
    /\ shadow = <<>>
    /\ last = NoLast
    /\ depth = 0

\* board.push(m) for a move m taken from board.legalMoves()
PushLegal ==
    /\ depth < MaxPly
    /\ depth' = depth + 1
    /\ \E m \in SeqToSet(legalMoves(board)) :
         /\ board' = push(board, m)
         /\ shadow' = Append(shadow, [before |-> Fields(board), move |-> m, legal |-> TRUE])
         /\ last' = [op |-> "push", arg |-> <<>>, move |-> m, before |-> Fields(board)]
    /\ UNCHANGED <<uciVars, treeVars, buildVars>>

\* board.push(m) for a move m the caller constructed; push does not validate it
PushRaw ==
    /\ depth < MaxPly
    /\ depth' = depth + 1
    /\ \E m \in RawMoves :
         /\ board' = push(board, m)
         /\ shadow' = Append(shadow, [before |-> Fields(board), move |-> m, legal |-> FALSE])
         /\ last' = [op |-> IF pushThrows(board, m) THEN "pushThrew" ELSE "pushRaw",
                     arg |-> <<>>, move |-> m, before |-> Fields(board)]
    /\ UNCHANGED <<uciVars, treeVars, buildVars>>

\* board.pop()
Pop ==
    /\ board' = pop(board)
    /\ depth' = IF board.moveStack = <<>> THEN depth ELSE depth - 1
    /\ shadow' = IF shadow = <<>> THEN <<>> ELSE SubSeq(shadow, 1, Len(shadow) - 1)
    /\ last' = [op |-> "pop", arg |-> <<>>, move |-> popResult(board), before |-> Fields(board)]
    /\ UNCHANGED <<uciVars, treeVars, buildVars>>

\* board.setFen(board.fen())
SetFenFen ==
    /\ board' = setFen(board, fen(board))
    /\ shadow' = <<>>
    /\ UNCHANGED depth
    /\ last' = [op |-> "setFen", arg |-> fen(board), move |-> NoMove, before |-> Fields(board)]
    /\ UNCHANGED <<uciVars, treeVars, buildVars>>

NextBoard == PushLegal \/ PushRaw \/ Pop \/ SetFenFen

StartBoard == InitBoard /\ IdleUci /\ IdleTree /\ IdleBuild

SpecBoard == StartBoard /\ [][NextBoard]_vars

(***************************************************************************)
(* Properties of the Board operations                                      *)
(***************************************************************************)
\* C3: push followed by pop is an exact undo.  Every pop() of a legal push
\* returns the move of the latest push not yet undone (so k pops return the
\* moves of k pushes in reverse order) and restores turn, castlingRights,
\* epSquare, halfmoveClock, fullmoveNumber and the 64 squares to what they
\* were before that push; pop() on an empty stack returns none and changes
\* nothing.
C3_PushPopExactUndo ==
    [][last'.op = "pop" =>
          IF board.moveStack = <<>>
          THEN last'.move = NoMove /\ board' = board
          ELSE LET top == shadow[Len(shadow)]
               IN top.legal => /\ last'.move = top.move
                               /\ Fields(board') = top.before
                               /\ Len(board'.moveStack) = Len(board.moveStack) - 1]_vars

\* Two legal moves were pushed, the second one has been popped again and the
\* pop changed the position.
C3_Witness ==
    /\ last.op = "pop"
    /\ last.move # NoMove
    /\ Len(board.moveStack) = 1
    /\ Len(shadow) = 1
    /\ shadow[1].legal
    /\ Fields(board) # last.before
    /\ last.move \in SeqToSet(legalMoves(board))

\* C27: a failed push changes nothing.  When push(move) throws because no
\* piece stands on move.from, the board fields and the undo stack are what
\* they were before the call; a pop() that follows a failed first push
\* returns none.
C27_FailedPushChangesNothing ==
    [][/\ last'.op = "pushThrew" => board' = board
       /\ (last.op = "pushThrew" /\ Len(shadow) = 1 /\ last'.op = "pop") => last'.move = NoMove]_vars

\* C8: setFen(fen()) leaves turn, castlingRights, epSquare, halfmoveClock,
\* fullmoveNumber and all 64 squares unchanged, on every board reached from
\* a six-field FEN by pushes.
C8_FenRoundTrip == last.op = "setFen" => Fields(board) = last.before

(***************************************************************************)
(* SAN parsing                                                             *)
(***************************************************************************)
\* The positions parseSan is asked about, and how many legal moves deep.
SanFens == {STARTING_FEN, KP_FEN, RK_FEN, KNIGHTS_FEN}
MaxSanPly == 1

\* The SAN texts handed to parseSan.
SanPool ==
    {SAN_e4, SAN_Nf3, SAN_Ke2, SAN_a8Q, SAN_OO, SAN_OOO, SAN_00, SAN_000, SAN_null, SAN_Z0,
     SAN_Nd2, SAN_Nbd2}

InitSan ==
    /\ \E f \in SanFens : board = NewBoard(f)
    /\ shadow = <<>>
    /\ last = NoLast
    /\ depth = 0

\* a legal move is played to reach the next position
SanPush == depth < MaxSanPly /\ PushLegal

\* board.parseSan(san); a thrown IllegalMove is recorded as the result NoMove.
ParseSan ==
    /\ \E sanText \in SanPool :
         last' = [op |-> "parseSan", arg |-> sanText, move |-> parseSan(board, sanText), before |-> Fields(board)]
    /\ UNCHANGED <<board, shadow, depth>>
    /\ UNCHANGED <<uciVars, treeVars, buildVars>>

NextSan == SanPush \/ ParseSan

StartSan == InitSan /\ IdleUci /\ IdleTree /\ IdleBuild

SpecSan == StartSan /\ [][NextSan]_vars

\* C4: parseSan returns only legal moves.  For every SAN text other than the
\* null-move tokens, castling notations included, the move parseSan returns
\* is a member of legalMoves() of the position (otherwise it fails).
C4_ParseSanOnlyLegal ==
    (last.op = "parseSan" /\ last.arg \notin {SAN_null, SAN_Z0} /\ last.move # NoMove)
        => last.move \in SeqToSet(legalMoves(board))

\* A text of the shape piece letter, optional origin file, destination square.
PieceText(t) ==
    /\ Len(t) \in {3, 4}
    /\ t[1] \in {"N", "B", "R", "Q", "K"}
    /\ (Len(t) = 4 => IndexOf(FILE_NAMES, t[2]) > 0)
    /\ parseSquare(SubSeq(t, Len(t) - 1, Len(t))) # NullSq

\* The legal moves of the position that fit such a text: piece type,
\* destination, no promotion, and the origin file if the text gives one.
Candidates(t) ==
    {m \in SeqToSet(legalMoves(board)) :
        /\ board.pieces[m.fromSquare].pieceType = IndexOf(UPPER_SYMBOLS, t[1])
        /\ m.toSquare = parseSquare(SubSeq(t, Len(t) - 1, Len(t)))
        /\ m.promotion = NullPT
        /\ (Len(t) = 4 => squareFile(m.fromSquare) = IndexOf(FILE_NAMES, t[2]) - 1)}

\* C15: ambiguous SAN is rejected.  When more than one legal move of the
\* position fits the piece type, destination, promotion and disambiguation of
\* the text (or the text gives no disambiguation), parseSan fails with
\* IllegalMove and returns none of the candidates.
C15_AmbiguousSanRejected ==
    (last.op = "parseSan" /\ PieceText(last.arg) /\ Cardinality(Candidates(last.arg)) > 1)
        => last.move = NoMove

(***************************************************************************)
(* UCI text of a Move                                                      *)
(***************************************************************************)
\* The squares, promotion values and drop values Moves are constructed from:
\* a1, e2, e4, e7, e8; none or any piece type.
UciSquares == {0, 12, 28, 52, 60}
PieceTypeOrNone == {NullPT, PAWN, KNIGHT, BISHOP, ROOK, QUEEN, KING}
ConstructibleMoves ==
    {Move(f, t, p, d) : f \in UciSquares, t \in UciSquares, p \in PieceTypeOrNone, d \in PieceTypeOrNone}

\* The texts of the UCI grammar over the same squares.
GrammarTexts ==
    {squareName(f) \o squareName(t) \o p :
        f \in UciSquares, t \in UciSquares, p \in {<<>>, <<"n">>, <<"b">>, <<"r">>, <<"q">>}}
    \cup {<<"0", "0", "0", "0">>}
    \cup {<<c, "@">> \o squareName(t) : c \in SeqToSet(UPPER_SYMBOLS), t \in UciSquares}

NoOut == [threw |-> FALSE, move |-> NoMove, text |-> <<>>]

InitUci ==
    /\ uciOut = NoOut
    /\ \/ uciPhase = "move" /\ uciMove \in ConstructibleMoves /\ uciText = <<>>
       \/ uciPhase = "text" /\ uciText \in GrammarTexts /\ uciMove = NoMove

\* text = m.uci()
Uci ==
    /\ uciPhase = "move"
    /\ uciText' = uci(uciMove)
    /\ uciPhase' = "rendered"
    /\ UNCHANGED <<uciMove, uciOut>>
    /\ UNCHANGED <<boardVars, treeVars, buildVars>>

\* Move.fromUci(text) of the text just rendered
FromUciRendered ==
    /\ uciPhase = "rendered"
    /\ uciOut' = [threw |-> fromUci(uciText).threw, move |-> fromUci(uciText).move, text |-> <<>>]
    /\ uciPhase' = "moveDone"
    /\ UNCHANGED <<uciMove, uciText>>
    /\ UNCHANGED <<boardVars, treeVars, buildVars>>

\* m = Move.fromUci(s) for a text s of the grammar
FromUci ==
    /\ uciPhase = "text"
    /\ uciOut' = [threw |-> fromUci(uciText).threw, move |-> fromUci(uciText).move, text |-> <<>>]
    /\ uciMove' = fromUci(uciText).move
    /\ uciPhase' = IF fromUci(uciText).threw THEN "textThrew" ELSE "parsed"
    /\ UNCHANGED uciText
    /\ UNCHANGED <<boardVars, treeVars, buildVars>>

\* m.uci() of the move just parsed
UciParsed ==
    /\ uciPhase = "parsed"
    /\ uciOut' = [uciOut EXCEPT !.text = uci(uciMove)]
    /\ uciPhase' = "textDone"
    /\ UNCHANGED <<uciMove, uciText>>
    /\ UNCHANGED <<boardVars, treeVars, buildVars>>

NextUci == Uci \/ FromUciRendered \/ FromUci \/ UciParsed

StartUci == InitUci /\ IdleBoard /\ IdleTree /\ IdleBuild

SpecUci == StartUci /\ [][NextUci]_vars

\* C9: Move.fromUci(m.uci()) equals m on all four fields, for every
\* constructible Move m.
C9_MoveUciRoundTrip ==
    uciPhase = "moveDone" => (~uciOut.threw /\ uciOut.move = uciMove)

\* C10: Move.fromUci(s).uci() = s for every text s of the UCI grammar; the
\* null move renders as 0000.
C10_UciTextRoundTrip ==
    /\ uciPhase # "textThrew"
    /\ uciPhase = "textDone" => uciOut.text = uciText

(***************************************************************************)
(* GameNode trees: structural mutations, board() and the boards handed out *)
(***************************************************************************)
\* The move nodes are made with: e2e4 (whose origin is empty once e2e4 has
\* been played).
TreeMoves == {Move(12, 28, NullPT, NullPT)}
TreeLines == {<<m>> : m \in TreeMoves} \cup {<<m1, m2>> : m1 \in TreeMoves, m2 \in TreeMoves}

\* How many times the caller changes one board it was handed.
MaxEdits == 2

InitTree == IdleTree

Structural(t) ==
    /\ tree' = t
    /\ UNCHANGED <<heap, held, first, askedAgain, edits>>
    /\ UNCHANGED <<boardVars, uciVars, buildVars>>

AddVariation ==
    /\ tree.size < MaxTreeNodes
    /\ \E n \in Nodes(tree), m \in TreeMoves : Structural(addVariation(tree, n, m))

AddMainVariation ==
    /\ tree.size < MaxTreeNodes
    /\ \E n \in Nodes(tree), m \in TreeMoves : Structural(addMainVariation(tree, n, m))

AddLine ==
    \E n \in Nodes(tree), moves \in TreeLines :
        /\ tree.size + Len(moves) <= MaxTreeNodes
        /\ Structural(addLine(tree, n, moves))

RemoveVariation ==
    \E n \in Nodes(tree), v \in Nodes(tree) : Structural(removeVariation(tree, n, v))

Promote == \E n \in Nodes(tree) : Structural(promote(tree, n))

Demote == \E n \in Nodes(tree) : Structural(demote(tree, n))

PromoteToMain == \E n \in Nodes(tree) : Structural(promoteToMain(tree, n))

\* The first position a node's board() or fen() gave.
Remember(n, r) ==
    IF r.threw \/ first[n].set THEN first
    ELSE [first EXCEPT ![n] = [set |-> TRUE, fields |-> Fields(r.heap[r.ret])]]

\* b = node.board(): the caller lets go of the board it holds and keeps the
\* one it is handed
BoardOfNode ==
    \E n \in Nodes(tree) :
        LET r == boardCall(tree, Collect(tree, heap, {}), n)
            kept == IF r.threw THEN NotHeld ELSE [id |-> r.ret, node |-> n]
        IN /\ tree' = r.tree
           /\ held' = kept
           /\ heap' = Collect(r.tree, r.heap, {kept.id})
           /\ first' = Remember(n, r)
           /\ askedAgain' = FALSE
           /\ edits' = 0
           /\ UNCHANGED <<boardVars, uciVars, buildVars>>

\* node.fen(): board().fen()
FenOfNode ==
    \E n \in Nodes(tree) :
        LET r == boardCall(tree, heap, n)
        IN /\ tree' = r.tree
           /\ heap' = Collect(r.tree, r.heap, {held.id})
           /\ first' = Remember(n, r)
           /\ askedAgain' = (askedAgain \/ (edits > 0 /\ first[n].set /\ n = held.node))
           /\ UNCHANGED <<held, edits>>
           /\ UNCHANGED <<boardVars, uciVars, buildVars>>

NextTree ==
    \/ AddVariation \/ AddMainVariation \/ AddLine \/ RemoveVariation
    \/ Promote \/ Demote \/ PromoteToMain \/ BoardOfNode

StartTree == InitTree /\ IdleBoard /\ IdleUci /\ IdleBuild

SpecTree == StartTree /\ [][NextTree]_vars

\* The caller changes the board it holds.
Edit(b) ==
    /\ edits < MaxEdits
    /\ edits' = edits + 1
    /\ heap' = [heap EXCEPT ![held.id] = b]
    /\ askedAgain' = FALSE
    /\ UNCHANGED <<tree, held, first>>
    /\ UNCHANGED <<boardVars, uciVars, buildVars>>

HeldPush == held.id # NullId /\ \E m \in TreeMoves : Edit(push(heap[held.id], m))

HeldPop == held.id # NullId /\ Edit(pop(heap[held.id]))

HeldSetFen == held.id # NullId /\ Edit(setFen(heap[held.id], KP_FEN))

\* setPieceAt(e2, null), setPieceAt(e4, a black queen)
HeldSetPieceAt ==
    /\ held.id # NullId
    /\ \E sq \in {12, 28}, p \in {NoPiece, Piece(QUEEN, BLACK)} :
          Edit([heap[held.id] EXCEPT !.pieces[sq] = p])

\* the setters of turn, castlingRights, epSquare, halfmoveClock, fullmoveNumber
HeldSetField ==
    /\ held.id # NullId
    /\ \/ Edit([heap[held.id] EXCEPT !.turn = ~@])
       \/ Edit([heap[held.id] EXCEPT !.castlingRights = 0])
       \/ Edit([heap[held.id] EXCEPT !.epSquare = 20])
       \/ Edit([heap[held.id] EXCEPT !.halfmoveClock = @ + 1])
       \/ Edit([heap[held.id] EXCEPT !.fullmoveNumber = @ + 1])

NextOwned ==
    \/ AddVariation \/ BoardOfNode \/ FenOfNode
    \/ HeldPush \/ HeldPop \/ HeldSetFen \/ HeldSetPieceAt \/ HeldSetField

SpecOwned == StartTree /\ [][NextOwned]_vars

\* C6: a cached board is never stale.  After any sequence of structural
\* mutations and board() calls, board() of every node, attached or detached,
\* gives the position that a fresh replay of the moves on the path from the
\* node's current root gives (and fails where the replay fails).
C6_CacheCoherence ==
    \A n \in Nodes(tree) :
        LET r == boardCall(tree, heap, n)
            fresh == replay(tree, n)
        IN /\ r.threw = fresh.threw
           /\ ~r.threw => Fields(r.heap[r.ret]) = Fields(fresh.board)

\* C28: board() is deterministic with respect to the cache.  The board a
\* node's board() call returned, whether that call filled the cache or read
\* it, is indistinguishable from the board a later call returns: the same
\* fields and pieces and the same, empty, move stack, so that pop() on it
\* returns none and leaves it unchanged.
C28_BoardDeterministic ==
    held.id # NullId =>
        LET later == boardCall(tree, heap, held.node)
        IN /\ ~later.threw
           /\ Fields(later.heap[later.ret]) = Fields(heap[held.id])
           /\ later.heap[later.ret].moveStack = heap[held.id].moveStack
           /\ heap[held.id].moveStack = <<>>
           /\ popResult(heap[held.id]) = NoMove
           /\ pop(heap[held.id]) = heap[held.id]

\* C7: board() returns owned copies.  Whatever the caller does to the boards
\* it was handed, the cache of every node keeps the position of the node's
\* first board() call, and board() and fen() of the node give that position
\* again.
C7_OwnedCopies ==
    \A n \in Nodes(tree) :
        first[n].set =>
            LET r == boardCall(tree, heap, n)
            IN /\ tree.valid[n]
               /\ Fields(heap[tree.cache[n]]) = first[n].fields
               /\ ~r.threw
               /\ Fields(r.heap[r.ret]) = first[n].fields
               /\ Fields(NewBoard(fen(r.heap[r.ret]))) = first[n].fields

\* The caller changed the board a node with a child handed out, making it
\* differ from the node's and the child's position, and then asked the node
\* for its position again.
C7_Witness ==
    /\ edits > 0
    /\ askedAgain
    /\ held.id # NullId
    /\ tree.variations[held.node] # <<>>
    /\ first[held.node].set
    /\ first[tree.variations[held.node][1]].set
    /\ Fields(heap[held.id]) # first[held.node].fields
    /\ Fields(heap[held.id]) # first[tree.variations[held.node][1]].fields

(***************************************************************************)
(* buildGameTree, one move record at a time                                *)
(***************************************************************************)
\* Move records without variations.
T_e4 == PgnMove(SAN_e4, "", "e", "4", <<>>, <<>>, FALSE, <<>>)
T_e5 == PgnMove(SAN_e5, "", "e", "5", <<>>, <<>>, FALSE, <<>>)
T_c5 == PgnMove(SAN_c5, "", "c", "5", <<>>, <<>>, FALSE, <<>>)
T_d4 == PgnMove(SAN_d4, "", "d", "4", <<>>, <<>>, FALSE, <<>>)
T_Nf3 == PgnMove(SAN_Nf3, "N", "f", "3", <<>>, <<>>, FALSE, <<>>)
T_Ke2 == PgnMove(SAN_Ke2, "K", "e", "2", <<>>, <<>>, FALSE, <<>>)
T_Ke7 == PgnMove(SAN_Ke7, "K", "e", "7", <<>>, <<>>, FALSE, <<>>)
T_OO == PgnMove(SAN_OO, "", "", "", <<>>, <<>>, FALSE, <<>>)
T_null == PgnMove(SAN_null, "", "", "", <<>>, <<>>, FALSE, <<>>)
\* the drop N@f3
T_Ndrop == PgnMove(<<"N", "@", "f", "3">>, "N", "f", "3", <<>>, <<>>, TRUE, <<>>)
T_Kd3 == PgnMove(<<"K", "d", "3">>, "K", "d", "3", <<>>, <<>>, FALSE, <<>>)
\* "exd6e.p.", which parseSan cannot read and the notation fields resolve
T_exd6ep == PgnMove(<<"e", "x", "d", "6", "e", ".", "p", ".">>, "", "d", "6", <<"e">>, <<>>, FALSE, <<>>)

T_Nc6 == PgnMove(SAN_Nc6, "N", "c", "6", <<>>, <<>>, FALSE, <<>>)
T_Nf6 == PgnMove(SAN_Nf6, "N", "f", "6", <<>>, <<>>, FALSE, <<>>)
T_Nxe5 == PgnMove(SAN_Nxe5, "N", "e", "5", <<>>, <<>>, FALSE, <<>>)
T_Bc4 == PgnMove(SAN_Bc4, "B", "c", "4", <<>>, <<>>, FALSE, <<>>)
T_Nxe4 == PgnMove(SAN_Nxe4, "N", "e", "4", <<>>, <<>>, FALSE, <<>>)
T_Bb5 == PgnMove(SAN_Bb5, "B", "b", "5", <<>>, <<>>, FALSE, <<>>)
T_cxd4 == PgnMove(SAN_cxd4, "", "d", "4", <<"c">>, <<>>, FALSE, <<>>)
T_d6 == PgnMove(SAN_d6, "", "d", "6", <<>>, <<>>, FALSE, <<>>)

With(pgnMove, variations) == [pgnMove EXCEPT !.variations = variations]

\* 1. e4 e5 (1... c5 2. Nf3) 2. Nf3 *
EXAMPLE_SICILIAN ==
    [fen |-> NoFen, moves |-> <<T_e4, With(T_e5, <<<<T_c5, T_Nf3>>>>), T_Nf3, ResultToken>>]
\* 1. e4 (1. d4 e5 (1... c5)) (1. Nf3) 1... e5 : two groups on one move, a variation within a variation
EXAMPLE_NESTED ==
    [fen |-> NoFen,
     moves |-> <<With(T_e4, <<<<T_d4, With(T_e5, <<<<T_c5>>>>)>>, <<T_Nf3>>>>), T_e5>>]
\* 1. e4 e5 2. Ke2 Ke7 3. O-O : castling after the king has left e1
EXAMPLE_LATE_CASTLING ==
    [fen |-> NoFen, moves |-> <<T_e4, T_e5, T_Ke2, T_Ke7, T_OO>>]
\* 1. e4 -- 2. d4 : a null move
EXAMPLE_NULL == [fen |-> NoFen, moves |-> <<T_e4, T_null, T_d4>>]
\* 1. e4 e5 (1... Ke2 c5) : the first move of the variation cannot be read
EXAMPLE_BAD_START == [fen |-> NoFen, moves |-> <<T_e4, With(T_e5, <<<<T_Ke2, T_c5>>>>)>>]
\* [FEN "4k3/P7/8/3pP3/8/8/6P1/4K2R w K d6 0 1"] 1. exd6e.p. Ke7 2. O-O
EXAMPLE_FEN == [fen |-> KP_FEN, moves |-> <<T_exd6ep, T_Ke7, T_OO>>]

\* 1. e4 e5 (1... c5 2. Nf3 (2. d4 cxd4) d6) 2. Nf3 Nc6 (2... Nf6 3. Nxe5 (3. Bc4 Nxe4)) 3. Bb5 *
EXAMPLE_DEEP ==
    [fen |-> NoFen,
     moves |-> <<T_e4,
                 With(T_e5, <<<<T_c5, With(T_Nf3, <<<<T_d4, T_cxd4>>>>), T_d6>>>>),
                 T_Nf3,
                 With(T_Nc6, <<<<T_Nf6, With(T_Nxe5, <<<<T_Bc4, T_Nxe4>>>>)>>>>),
                 T_Bb5,
                 ResultToken>>]

\* [FEN "4k3/P7/8/3pP3/8/8/6P1/4K2R w K d6 0 1"] 1. -- Ke7 : a null move with a1 empty
EXAMPLE_NULL_FEN == [fen |-> KP_FEN, moves |-> <<T_null, T_Ke7>>]
\* [FEN "4k3/P7/8/3pP3/8/8/6P1/4K2R w K d6 0 1"] 1. N@f3 Ke7 : a drop with a1 empty
EXAMPLE_DROP_FEN == [fen |-> KP_FEN, moves |-> <<T_Ndrop, T_Ke7>>]

Examples ==
    {EXAMPLE_SICILIAN, EXAMPLE_NESTED, EXAMPLE_LATE_CASTLING, EXAMPLE_NULL, EXAMPLE_BAD_START, EXAMPLE_FEN,
     EXAMPLE_DEEP, EXAMPLE_NULL_FEN, EXAMPLE_DROP_FEN}

\* The generated inputs: a main line of up to MaxMain records, one of which
\* may carry one variation of up to MaxVarLen records.
MaxMain == 2
MaxVarLen == 2
Pool == {T_e4, T_e5, T_Ke2, T_OO}
RECURSIVE SeqsOfLen(_, _)
SeqsOfLen(S, n) ==
    IF n = 0 THEN {<<>>} ELSE {<<x>> \o s : x \in S, s \in SeqsOfLen(S, n - 1)}
SeqsUpTo(S, n) == UNION {SeqsOfLen(S, k) : k \in 1..n}
Generated ==
    LET lines == SeqsUpTo(Pool, MaxMain)
        vars1 == SeqsUpTo(Pool, MaxVarLen)
    IN {[fen |-> NoFen, moves |-> m] : m \in lines}
       \cup UNION {{[fen |-> NoFen, moves |-> [m EXCEPT ![i] = With(m[i], <<v>>)]] :
                        i \in 1..Len(m), v \in vars1} : m \in lines}

BuildInputs == Examples \cup Generated

InitBuild ==
    /\ input \in BuildInputs
    /\ tree = NewGame(input.fen)
    /\ stack = <<>>
    /\ errors = <<>>
    /\ buildStatus = "idle"
    /\ origin = <<>>
    /\ heap = EmptyHeap
    /\ held = NotHeld
    /\ first = [n \in TreeIds |-> NoFirst]
    /\ askedAgain = FALSE
    /\ edits = 0

Top == stack[Len(stack)]
SetTop(frame) == [stack EXCEPT ![Len(stack)] = frame]
Untouched == UNCHANGED <<boardVars, uciVars, heap, held, first, askedAgain, edits, input>>

\* buildGameTree up to its call of buildMoveTree
BuildStart ==
    /\ buildStatus = "idle"
    /\ IF input.moves = <<>>
       THEN buildStatus' = "done" /\ stack' = <<>>
       ELSE /\ buildStatus' = "running"
            /\ stack' = <<Frame(0, copy(startingBoard(input.fen)), input.moves, <<>>)>>
    /\ UNCHANGED <<tree, errors, origin>>
    /\ Untouched

\* buildMoveTree taking the snapshot FEN after the push instead of before it
afterPush_snapshotAfter(f, pushed, newNode, groups) ==
    IF groups = <<>>
    THEN [f EXCEPT !.board = pushed, !.node = newNode, !.i = @ + 1]
    ELSE [f EXCEPT !.board = pushed, !.newNode = newNode, !.fenBefore = fen(pushed),
                   !.pending = groups]

\* The activation after its current record gave newNode and the move was
\* pushed: on to the next record, or first to the variations of this one.
afterPush(f, pushed, newNode, groups) ==
    IF groups = <<>>
    THEN [f EXCEPT !.board = pushed, !.node = newNode, !.i = @ + 1]
    ELSE [f EXCEPT !.board = pushed, !.newNode = newNode, !.fenBefore = fen(f.board),
                   !.pending = groups]

\* one pass of the loop of buildMoveTree, up to the variations of the move
BuildRecord ==
    /\ buildStatus = "running"
    /\ Top.pending = <<>>
    /\ Top.i <= Len(Top.moves)
    /\ \E f \in {Top} : \E pgnMove \in {f.moves[f.i]} :
         IF pgnMove.isString
         THEN /\ stack' = SetTop([f EXCEPT !.i = @ + 1])
              /\ UNCHANGED <<tree, errors, origin, buildStatus>>
         ELSE \E parsed \in {parseMove(pgnMove, f.board)} :
              IF parsed.threw
              THEN /\ errors' = Append(errors, [san |-> pgnMove.notation, fen |-> fen(f.board),
                                                place |-> Append(f.place, f.i)])
                   /\ stack' = SetTop([f EXCEPT !.i = @ + 1])
                   /\ UNCHANGED <<tree, origin, buildStatus>>
              ELSE \E pushed \in {push(f.board, parsed.move)} :
                   /\ tree' = addVariation(tree, f.node, parsed.move)
                   /\ origin' = Append(origin, Append(f.place, f.i))
                   /\ errors' = errors
                   /\ IF pushThrows(f.board, parsed.move)
                      THEN /\ buildStatus' = "threw"
                           /\ stack' = SetTop([f EXCEPT !.board = pushed])
                      ELSE /\ buildStatus' = buildStatus
                           /\ stack' = SetTop(afterPush(f, pushed, tree.size, Groups(pgnMove)))
    /\ Untouched

\* the call of buildMoveTree for the next variation of the current move
BuildVariation ==
    /\ buildStatus = "running"
    /\ Top.pending # <<>>
    /\ LET f == Top
           g == Head(f.pending)
           varBoard == NewBoard(f.fenBefore)
       IN stack' = Append(SetTop([f EXCEPT !.pending = Tail(@)]),
                          Frame(variationParent(f), copy(varBoard), g.moves,
                                f.place \o <<f.i, g.index>>))
    /\ UNCHANGED <<tree, errors, origin, buildStatus>>
    /\ Untouched

\* buildMoveTree returns; its caller, done with the variations of its current
\* move, goes on to the next move
BuildReturn ==
    /\ buildStatus = "running"
    /\ Top.pending = <<>>
    /\ Top.i > Len(Top.moves)
    /\ LET rest == SubSeq(stack, 1, Len(stack) - 1)
       IN IF rest = <<>>
          THEN stack' = <<>> /\ buildStatus' = "done"
          ELSE LET c == rest[Len(rest)]
               IN /\ buildStatus' = buildStatus
                  /\ stack' = [rest EXCEPT ![Len(rest)] =
                                  IF c.pending = <<>>
                                  THEN [c EXCEPT !.node = c.newNode, !.i = @ + 1]
                                  ELSE c]
    /\ UNCHANGED <<tree, errors, origin>>
    /\ Untouched

NextBuild == BuildStart \/ BuildRecord \/ BuildVariation \/ BuildReturn

StartBuild == InitBuild /\ IdleBoard /\ IdleUci

SpecBuild == StartBuild /\ [][NextBuild]_vars

\* The move record at a place of the parse tree: <<i>> is the i-th element of
\* the moves array, <<i, g, j>> the j-th element of group g of that record's
\* variations, and so on.
RECURSIVE RecordAt(_, _)
RecordAt(moves, place) ==
    IF Len(place) = 1 THEN moves[place[1]]
    ELSE RecordAt(moves[place[1]].variations[place[2]], SubSeq(place, 3, Len(place)))

IsPrefix(p, q) == Len(p) <= Len(q) /\ SubSeq(q, 1, Len(p)) = p

\* node n is node a or below it
RECURSIVE Below(_, _, _)
Below(t, n, a) == n = a \/ (t.parent[n] # NullNode /\ Below(t, t.parent[n], a))

\* The nodes made so far; origin[n] is the place of the record node n was made for.
Made == 1..Len(origin)
\* the groups of the record of node m that gave a node, the nodes made for
\* the records of group g itself, and the first of them
GroupsOf(m) ==
    {origin[n][Len(origin[m]) + 1] :
        n \in {k \in Made : Len(origin[k]) > Len(origin[m]) /\ IsPrefix(origin[m], origin[k])}}
GroupNodes(m, g) ==
    {n \in Made : Len(origin[n]) = Len(origin[m]) + 2 /\ IsPrefix(Append(origin[m], g), origin[n])}
GroupFirst(m, g) ==
    CHOOSE n \in GroupNodes(m, g) :
        \A k \in GroupNodes(m, g) : origin[n][Len(origin[n])] <= origin[k][Len(origin[k])]

e2e4 == Move(12, 28, NullPT, NullPT)
e7e5 == Move(52, 36, NullPT, NullPT)
c7c5 == Move(50, 34, NullPT, NullPT)
g1f3 == Move(6, 21, NullPT, NullPT)
MovesOf(t, children) == [k \in 1..Len(children) |-> t.move[children[k]]]

\* C1: the variation-parent rule.  For every record M made a child of a node
\* P, the first move of each variation group of M is a further child of P and
\* no child of M, it stands after M in P.variations, the groups in their
\* order, and every other node of the group is below that first move.  When
\* "1. e4 e5 (1... c5 2. Nf3) 2. Nf3 *" is built, the root has the one child
\* e4, e4 has the children e5, c5 in that order, and c5 the one child Nf3.
C1_VariationParentRule ==
    /\ \A m \in Made : \A g \in GroupsOf(m) :
          LET P == tree.parent[m]
              F == GroupFirst(m, g)
          IN /\ tree.parent[F] = P
             /\ F \notin SeqToSet(tree.variations[m])
             /\ IndexOf(tree.variations[P], F) > IndexOf(tree.variations[P], m)
             /\ \A g2 \in GroupsOf(m) :
                   g2 < g => IndexOf(tree.variations[P], GroupFirst(m, g2))
                                < IndexOf(tree.variations[P], F)
             /\ \A n \in Made : IsPrefix(Append(origin[m], g), origin[n]) => Below(tree, n, F)
    /\ (input = EXAMPLE_SICILIAN /\ buildStatus = "done") =>
          /\ MovesOf(tree, tree.variations[0]) = <<e2e4>>
          /\ MovesOf(tree, tree.variations[tree.variations[0][1]]) = <<e7e5, c7c5>>
          /\ MovesOf(tree, tree.variations[tree.variations[tree.variations[0][1]][2]]) = <<g1f3>>

\* The example is built: its one variation gave the nodes of c5 and Nf3, and
\* the main line went on below e5.
C1_Witness ==
    /\ input = EXAMPLE_SICILIAN
    /\ buildStatus = "done"
    /\ tree.size = 6
    /\ GroupsOf(2) = {1}
    /\ GroupNodes(2, 1) = {3, 4}
    /\ tree.parent[3] = 1
    /\ tree.parent[5] = 2

\* C2: the builder never aborts.  No build ends in an exception; a record
\* that could not be resolved has one entry in errors with its SAN, and no
\* node; nothing is built from the variations of such a record; and when the
\* build has returned, every record of the top-level sequence has a node or
\* an error.
C2_NeverAborts ==
    /\ buildStatus # "threw"
    /\ \A e \in 1..Len(errors) :
          /\ errors[e].place \notin SeqToSet(origin)
          /\ \A e2 \in 1..Len(errors) : errors[e2].place = errors[e].place => e2 = e
          /\ errors[e].san = RecordAt(input.moves, errors[e].place).notation
          /\ \A n \in Made : ~(Len(origin[n]) > Len(errors[e].place)
                               /\ IsPrefix(errors[e].place, origin[n]))
    /\ buildStatus = "done" =>
          \A i \in 1..Len(input.moves) :
              ~input.moves[i].isString =>
                  \/ <<i>> \in SeqToSet(origin)
                  \/ \E e \in 1..Len(errors) : errors[e].place = <<i>>

\* C5: moves are validated in tree building.  In a tree the builder has
\* returned, the move of every non-root node, null moves and drops aside, is
\* one of the legal moves of the position of its parent.
C5_NodeMovesLegal ==
    buildStatus = "done" =>
        \A n \in Made :
            (~isNull(tree.move[n]) /\ tree.move[n].drop = NullPT) =>
                /\ ~replay(tree, tree.parent[n]).threw
                /\ tree.move[n] \in SeqToSet(legalMoves(replay(tree, tree.parent[n]).board))

\* C20: null moves and drops never abort a build.  buildGameTree does not
\* throw at a record that is a null move ('--', 'Z0') or a drop: where
\* applying its move to the live board fails, an error is recorded and the
\* build goes on.
C20_NullAndDropNeverAbort ==
    buildStatus = "threw" =>
        LET pgnMove == RecordAt(input.moves, origin[Len(origin)])
        IN pgnMove.notation \notin {SAN_null, SAN_Z0} /\ ~pgnMove.drop

\* C25: a failed first move of a variation.  When the first move of a
\* variation cannot be resolved, errors has an entry with the failed SAN and
\* the FEN of the position before the variation, and the whole variation is
\* left out: none of its later moves and none of its nested variations gives
\* a node anywhere in the tree.
C25_FailedVariationOmitted ==
    \A e \in 1..Len(errors) :
        LET p == errors[e].place
            group == SubSeq(p, 1, Len(p) - 1)
        IN (Len(p) >= 3 /\ p[Len(p)] = 1) =>
              /\ errors[e].san = RecordAt(input.moves, p).notation
              /\ \E m \in Made :
                    /\ origin[m] = SubSeq(p, 1, Len(p) - 2)
                    /\ errors[e].fen = fen(replay(tree, tree.parent[m]).board)
              /\ \A n \in Made : ~IsPrefix(group, origin[n])

\* The node the live board of activation k stands at: the node new nodes are
\* appended under, or, while the variations of its current move are built,
\* the node of that move.
Cursor(k) ==
    IF k = Len(stack) /\ stack[k].pending = <<>> THEN stack[k].node ELSE stack[k].newNode

\* C26: the builder's two cursors stay in step.  In every activation of
\* buildMoveTree, main line or (nested) variation, with or without earlier
\* errors, the FEN of the live board is the FEN the replay from the root
\* gives for the node the next node is appended under; and right after a move
\* was applied, the FEN of the live board is the FEN of the node of that move.
C26_CursorsInStep ==
    buildStatus = "running" =>
        \A k \in 1..Len(stack) :
            LET r == replay(tree, Cursor(k))
            IN ~r.threw /\ fen(stack[k].board) = fen(r.board)

\* Inside a variation, after its first record failed, the next record is
\* about to be resolved under a node that is not the root.
C26_Witness ==
    /\ buildStatus = "running"
    /\ Len(stack) >= 2
    /\ errors # <<>>
    /\ Top.pending = <<>>
    /\ Top.i <= Len(Top.moves)
    /\ Top.node # 0
    /\ tree.size >= 3

g1f3_d2d4 == <<g1f3, Move(11, 27, NullPT, NullPT)>>
d7d6 == Move(51, 43, NullPT, NullPT)
\* the node of 1. e4 and, below it, the node of 1... c5
DeepE4 == tree.variations[0][1]
DeepC5 == tree.variations[DeepE4][2]

\* C11 as stated: in the tree built from "1. e4 e5 (1... c5 2. Nf3 (2. d4
\* cxd4) d6) 2. Nf3 Nc6 (2... Nf6 3. Nxe5 (3. Bc4 Nxe4)) 3. Bb5 *" countNodes()
\* is at least 12, e4 has exactly the children e5 and c5, and c5 has exactly
\* two children, Nf3 and d6.
C11_NestedAsStated ==
    (input = EXAMPLE_DEEP /\ buildStatus = "done") =>
        /\ countNodes(tree, 0) >= 12
        /\ MovesOf(tree, tree.variations[DeepE4]) = <<e7e5, c7c5>>
        /\ Len(tree.variations[DeepC5]) = 2
        /\ SeqToSet(MovesOf(tree, tree.variations[DeepC5])) = {g1f3, d7d6}

\* C11, amended: in that tree countNodes() is at least 12, e4 has exactly the
\* children e5 and c5, and c5 has exactly two children, Nf3 and d4 (the first
\* move of the variation attached to Nf3); d6 is the one child of that Nf3.
C11_NestedVariations ==
    (input = EXAMPLE_DEEP /\ buildStatus = "done") =>
        /\ countNodes(tree, 0) >= 12
        /\ MovesOf(tree, tree.variations[DeepE4]) = <<e7e5, c7c5>>
        /\ MovesOf(tree, tree.variations[DeepC5]) = g1f3_d2d4
        /\ MovesOf(tree, tree.variations[tree.variations[DeepC5][1]]) = <<d7d6>>

\* The nested example is built, without an error, into a tree of 15 nodes.
C11_Witness ==
    /\ input = EXAMPLE_DEEP
    /\ buildStatus = "done"
    /\ errors = <<>>
    /\ countNodes(tree, 0) = 15
    /\ tree.size = 15

(***************************************************************************)
(* GameNode trees: the structural mutators alone                           *)
(***************************************************************************)
\* Here last is the latest call: its name, the node it was called on (and
\* the node handed to removeVariation), the move handed to it and the tree
\* before it.
d7d5 == Move(51, 35, NullPT, NullPT)
\* The tree of "1. e4 e5 (1... c5) (1... d5) *": node 1 is e4, and its
\* children are the nodes 2 (e5), 3 (c5) and 4 (d5).
ORDER_EXAMPLE ==
    addVariation(addVariation(addVariation(addVariation(NewGame(NoFen), 0, e2e4), 1, e7e5),
                              1, c7c5), 1, d7d5)
MaxOrderNodes == 4

InitOrder ==
    /\ tree \in {NewGame(NoFen), ORDER_EXAMPLE}
    /\ heap = EmptyHeap
    /\ held = NotHeld
    /\ first = [n \in TreeIds |-> NoFirst]
    /\ askedAgain = FALSE
    /\ edits = 0
    /\ board = BlankBoard
    /\ shadow = <<>>
    /\ last = NoLast
    /\ depth = 0

Called(op, arg, move, t) ==
    /\ tree' = t
    /\ last' = [op |-> op, arg |-> arg, move |-> move, before |-> tree]
    /\ UNCHANGED <<board, shadow, depth>>
    /\ UNCHANGED <<heap, held, first, askedAgain, edits>>
    /\ UNCHANGED <<uciVars, buildVars>>

OrderAddVariation ==
    /\ tree.size < MaxOrderNodes
    /\ \E n \in Nodes(tree), m \in TreeMoves :
          Called("addVariation", <<n>>, m, addVariation(tree, n, m))

OrderAddMainVariation ==
    /\ tree.size < MaxOrderNodes
    /\ \E n \in Nodes(tree), m \in TreeMoves :
          Called("addMainVariation", <<n>>, m, addMainVariation(tree, n, m))

OrderAddLine ==
    \E n \in Nodes(tree), moves \in TreeLines :
        /\ tree.size + Len(moves) <= MaxOrderNodes
        /\ Called("addLine", <<n>>, moves[1], addLine(tree, n, moves))

OrderRemoveVariation ==
    \E n \in Nodes(tree), v \in Nodes(tree) :
        Called("removeVariation", <<n, v>>, NoMove, removeVariation(tree, n, v))

OrderPromote == \E n \in Nodes(tree) : Called("promote", <<n>>, NoMove, promote(tree, n))

OrderDemote == \E n \in Nodes(tree) : Called("demote", <<n>>, NoMove, demote(tree, n))

OrderPromoteToMain ==
    \E n \in Nodes(tree) : Called("promoteToMain", <<n>>, NoMove, promoteToMain(tree, n))

NextOrder ==
    \/ OrderAddVariation \/ OrderAddMainVariation \/ OrderAddLine \/ OrderRemoveVariation
    \/ OrderPromote \/ OrderDemote \/ OrderPromoteToMain

StartOrder == InitOrder /\ IdleUci /\ IdleBuild

SpecOrder == StartOrder /\ [][NextOrder]_vars

\* seq without x, the rest in their order
Without(seq, x) == SelectSeq(seq, LAMBDA y : y # x)
\* t1 is t0 but for the order of the children of p
OnlyPermutes(t0, t1, p) ==
    /\ t1 = [t0 EXCEPT !.variations[p] = t1.variations[p]]
    /\ Len(t1.variations[p]) = Len(t0.variations[p])
    /\ SeqToSet(t1.variations[p]) = SeqToSet(t0.variations[p])
\* the call just made was on a node with a parent
CalledOnChild == last.before.parent[last.arg[1]] # NullNode
SiblingsBefore == last.before.variations[last.before.parent[last.arg[1]]]
SiblingsAfter == tree.variations[last.before.parent[last.arg[1]]]
IndexBefore == IndexOf(SiblingsBefore, last.arg[1])
\* the moves of the children of e4 in the example tree
OrderOfExample(t) == MovesOf(t, t.variations[1])

Occurrences(seq, c) == Cardinality({k \in 1..Len(seq) : seq[k] = c})

\* C13: parent/child consistency.  After any sequence of the structural
\* mutators a node c stands in n.variations, exactly once, if and only if
\* c.parent = n.  removeVariation(child) removes exactly that child, keeps the
\* order of the others and clears child.parent; removeVariation of a node
\* that is no child changes nothing.
C13_ParentChildConsistency ==
    /\ \A n \in Nodes(tree), c \in Nodes(tree) :
          /\ (tree.parent[c] = n) <=> (Occurrences(tree.variations[n], c) > 0)
          /\ Occurrences(tree.variations[n], c) <= 1
    /\ last.op = "removeVariation" =>
          LET n == last.arg[1]
              v == last.arg[2]
              t0 == last.before
          IN IF Occurrences(t0.variations[n], v) = 0 THEN tree = t0
             ELSE /\ tree.variations[n] = Without(t0.variations[n], v)
                  /\ tree.parent[v] = NullNode
                  /\ tree = [t0 EXCEPT !.variations[n] = tree.variations[n],
                                       !.parent[v] = NullNode]

\* The middle one of three children was removed: the other two are left in
\* their order and the removed node, now a root, kept its own child list.
C13_Witness ==
    /\ last.op = "removeVariation"
    /\ Len(last.before.variations[last.arg[1]]) = 3
    /\ last.before.variations[last.arg[1]][2] = last.arg[2]
    /\ Len(tree.variations[last.arg[1]]) = 2
    /\ tree.parent[last.arg[2]] = NullNode

\* The nodes from n up to its root, and the number of steps up to it.
PathUp(t, n) == {a \in Nodes(t) : Below(t, n, a)}
Ply(t, n) == Cardinality(PathUp(t, n)) - 1
\* every node on the path from n up to the root is variations[0] of its parent
FirstAllTheWay(t, n) ==
    \A a \in PathUp(t, n) :
        t.parent[a] # NullNode =>
            (t.variations[t.parent[a]] # <<>> /\ t.variations[t.parent[a]][1] = a)
Roots(t) == {r \in Nodes(t) : t.parent[r] = NullNode}

\* C21: mainline navigation is consistent after every mutation.  isMainline()
\* of a node holds exactly when every node on the path from it up to the root
\* is variations[0] of its parent; mainline() of a root yields exactly the
\* non-root nodes below it for which isMainline() holds, the i-th at ply i,
\* its last element is end() of the root, and end() is a leaf whose root() is
\* that root.
C21_MainlineNavigation ==
    /\ \A n \in Nodes(tree) : isMainline(tree, n) <=> FirstAllTheWay(tree, n)
    /\ \A r \in Roots(tree) :
         LET line == mainline(tree, r)
         IN /\ SeqToSet(line) = {n \in Nodes(tree) : n # r /\ r \in PathUp(tree, n) /\ isMainline(tree, n)}
            /\ \A i \in 1..Len(line) : Ply(tree, line[i]) = i
            /\ line # <<>> => line[Len(line)] = end(tree, r)
            /\ tree.variations[end(tree, r)] = <<>>
            /\ root(tree, end(tree, r)) = r

\* After a mutation the Game has a mainline and, off it, a node that is
\* variations[0] of a parent that is not mainline.
C21_Witness ==
    /\ last.op # "new"
    /\ Len(mainline(tree, 0)) >= 1
    /\ \E n \in Nodes(tree) :
         /\ root(tree, n) = 0
         /\ ~isMainline(tree, n)
         /\ tree.variations[tree.parent[n]][1] = n

(***************************************************************************)
(* Board.san: the text of a legal move                                     *)
(***************************************************************************)
\* The positions san() is asked about, and how many legal moves deep.
RenderFens == {STARTING_FEN, KP_FEN, KNIGHTS_FEN, ROOKS_FEN}
MaxRenderPly == 1

InitRender ==
    /\ \E f \in RenderFens : board = NewBoard(f)
    /\ shadow = <<>>
    /\ last = NoLast
    /\ depth = 0

\* a legal move is played to reach the next position
RenderPush == depth < MaxRenderPly /\ PushLegal

\* board.san(m) for a move m taken from board.legalMoves()
San ==
    /\ \E m \in SeqToSet(legalMoves(board)) :
         last' = [op |-> "san", arg |-> san(board, m), move |-> m, before |-> Fields(board)]
    /\ UNCHANGED <<board, shadow, depth>>
    /\ UNCHANGED <<uciVars, treeVars, buildVars>>

NextRender == RenderPush \/ San

StartRender == InitRender /\ IdleUci /\ IdleTree /\ IdleBuild

SpecRender == StartRender /\ [][NextRender]_vars

\* The other legal moves of the position by a piece of the same type to the
\* same destination as m.
Rivals(m) ==
    {o \in SeqToSet(legalMoves(board)) :
        /\ o.toSquare = m.toSquare
        /\ o.fromSquare # m.fromSquare
        /\ board.pieces[o.fromSquare].pieceType = board.pieces[m.fromSquare].pieceType}

\* The origin coordinates the rule asks for: the rank alone when a rival
\* starts on the file of m, else the file alone when there is a rival, else
\* nothing.
RuleDisambiguation(m) ==
    IF \E o \in Rivals(m) : squareFile(o.fromSquare) = squareFile(m.fromSquare)
    THEN IntToString(squareRank(m.fromSquare) + 1)
    ELSE IF Rivals(m) # {} THEN <<FILE_NAMES[squareFile(m.fromSquare) + 1]>>
    ELSE <<>>

\* C14: for a legal non-pawn move m that is not castling, san(m) is the
\* piece letter, then the origin rank alone if another legal move of the same
\* piece type to the same destination starts on the file of m, else the
\* origin file alone if there is such a move at all, else nothing, then 'x'
\* for a capture and the destination square (then the check marks).
C14_SanDisambiguation ==
    (/\ last.op = "san"
     /\ board.pieces[last.move.fromSquare].pieceType # PAWN
     /\ last.arg \notin {SAN_OO, SAN_OOO})
        => IsPrefix(<<SAN_PIECE_LETTERS[board.pieces[last.move.fromSquare].pieceType + 1]>>
                        \o RuleDisambiguation(last.move)
                        \o (IF board.pieces[last.move.toSquare] # NoPiece THEN <<"x">> ELSE <<>>)
                        \o squareName(last.move.toSquare),
                    last.arg)

(***************************************************************************)
(* Board: the rules of the game (castling, check, mate, the first moves)   *)
(***************************************************************************)
\* The positions the rules are asked about, and how many legal moves deep.
RulesFens ==
    {STARTING_FEN, CASTLE_FEN, F1_ATTACKED_FEN, G1_ATTACKED_FEN, STALEMATE_FEN, BACK_RANK_FEN}
MaxRulesPly == 1

\* The opening moves of the fool's mate, as the texts given to pushSan and
\* as the moves they stand for.
FOOLS_MATE == <<SAN_f3, SAN_e5, SAN_g4, SAN_Qh4>>
FOOLS_MATE_MOVES ==
    <<Move(13, 21, NullPT, NullPT), Move(52, 36, NullPT, NullPT),
      Move(14, 30, NullPT, NullPT), Move(59, 31, NullPT, NullPT)>>

InitRules ==
    /\ \E f \in RulesFens : board = NewBoard(f)
    /\ shadow = <<>>
    /\ last = NoLast
    /\ depth = 0

\* a legal move is played to reach the next position
RulesPush == depth < MaxRulesPly /\ PushLegal

\* board.pushSan(text) with the next text of the fool's mate, on a board
\* made by new Board() that was given the texts before it
PushSan ==
    /\ Len(shadow) < Len(FOOLS_MATE)
    /\ \A i \in 1..Len(shadow) : shadow[i].move = FOOLS_MATE_MOVES[i]
    /\ IF shadow = <<>> THEN board = NewBoard(STARTING_FEN)
       ELSE shadow[1].before = Fields(NewBoard(STARTING_FEN))
    /\ \E sanText \in {FOOLS_MATE[Len(shadow) + 1]} :
       \E m \in {parseSan(board, sanText)} :
         IF m = NoMove
         THEN /\ last' = [op |-> "pushSanThrew", arg |-> sanText, move |-> NoMove, before |-> Fields(board)]
              /\ UNCHANGED <<board, shadow>>
         ELSE /\ board' = push(board, m)
              /\ shadow' = Append(shadow, [before |-> Fields(board), move |-> m, legal |-> FALSE])
              /\ last' = [op |-> "pushSan", arg |-> sanText, move |-> m, before |-> Fields(board)]
    /\ UNCHANGED depth
    /\ UNCHANGED <<uciVars, treeVars, buildVars>>

\* The squares pieces are removed from: f8 and c5.
RemovalSquares == {F8, 34}

\* board.removePieceAt(sq) for a piece of the side not to move, other than
\* its king, on a board just constructed
RemovePieceAt ==
    /\ last = NoLast
    /\ \E sq \in RemovalSquares :
         /\ board.pieces[sq] # NoPiece
         /\ board.pieces[sq].color # board.turn
         /\ board.pieces[sq].pieceType # KING
         /\ board' = removePieceAt(board, sq)
         /\ last' = [op |-> "removePieceAt", arg |-> squareName(sq), move |-> NoMove, before |-> Fields(board)]
    /\ UNCHANGED <<shadow, depth>>
    /\ UNCHANGED <<uciVars, treeVars, buildVars>>

\* [...board.legalMoves()] on a board no move was pushed on: the moves
\* listed, in the order generated
LegalMoves ==
    /\ shadow = <<>>
    /\ last' = [op |-> "legalMoves", arg |-> legalMoves(board), move |-> NoMove, before |-> Fields(board)]
    /\ UNCHANGED <<board, shadow, depth>>
    /\ UNCHANGED <<uciVars, treeVars, buildVars>>

NextRules == RulesPush \/ PushSan \/ RemovePieceAt \/ LegalMoves

StartRules == InitRules /\ IdleUci /\ IdleTree /\ IdleBuild

SpecRules == StartRules /\ [][NextRules]_vars

\* The rules of chess, stated on the squares: the piece on from attacks
\* target.
Sgn(x) == IF x > 0 THEN 1 ELSE IF x < 0 THEN -1 ELSE 0
ClearBetween(b, from, target) ==
    LET df == squareFile(target) - squareFile(from)
        dr == squareRank(target) - squareRank(from)
        n == IF Abs(df) > Abs(dr) THEN Abs(df) ELSE Abs(dr)
    IN \A k \in 1..(n - 1) :
         b.pieces[squareFromFileRank(squareFile(from) + k * Sgn(df), squareRank(from) + k * Sgn(dr))] = NoPiece
Reaches(b, from, target) ==
    LET p == b.pieces[from]
        df == Abs(squareFile(target) - squareFile(from))
        dr == squareRank(target) - squareRank(from)
        diagonal == df = Abs(dr) /\ df > 0 /\ ClearBetween(b, from, target)
        straight == (df = 0 \/ dr = 0) /\ from # target /\ ClearBetween(b, from, target)
    IN CASE p.pieceType = PAWN -> df = 1 /\ dr = (IF p.color = WHITE THEN 1 ELSE -1)
         [] p.pieceType = KNIGHT -> {df, Abs(dr)} = {1, 2}
         [] p.pieceType = BISHOP -> diagonal
         [] p.pieceType = ROOK -> straight
         [] p.pieceType = QUEEN -> diagonal \/ straight
         [] p.pieceType = KING -> df <= 1 /\ Abs(dr) <= 1 /\ from # target
         [] OTHER -> FALSE
AttackedBy(b, target, color) ==
    \E from \in SQUARES :
        b.pieces[from] # NoPiece /\ b.pieces[from].color = color /\ Reaches(b, from, target)

\* Squares of the home rank of the side to move, by file 0..7.
Home(file) == squareFromFileRank(file, IF board.turn = WHITE THEN 0 ELSE 7)
KingAtHome == board.pieces[Home(4)] = Piece(KING, board.turn)
KingsideRight == IF board.turn = WHITE THEN CASTLING_WHITE_KINGSIDE ELSE CASTLING_BLACK_KINGSIDE
QueensideRight == IF board.turn = WHITE THEN CASTLING_WHITE_QUEENSIDE ELSE CASTLING_BLACK_QUEENSIDE
\* legalMoves() holds the castling move of the king to the g-file / c-file
Castles(moves, file) == KingAtHome /\ Move(Home(4), Home(file), NullPT, NullPT) \in SeqToSet(moves)
CastlesKingside == Castles(legalMoves(board), 6)
CastlesQueenside == Castles(legalMoves(board), 2)

\* C16: legalMoves() contains kingside castling only when the side to move
\* holds the kingside right, the f and g squares are empty and none of e, f, g
\* is attacked by the opponent; queenside castling only when the right is
\* held, d, c and b are empty and none of e, d, c is attacked.  With f1
\* attacked by the rook on f8, white kingside castling is absent; once that
\* rook is removed it is present.
C16_CastlingLegality ==
    LET moves == legalMoves(board)
    IN /\ Castles(moves, 6) =>
            /\ HasRight(board.castlingRights, KingsideRight)
            /\ \A file \in {5, 6} : board.pieces[Home(file)] = NoPiece
            /\ \A file \in {4, 5, 6} : ~AttackedBy(board, Home(file), ~board.turn)
       /\ Castles(moves, 2) =>
            /\ HasRight(board.castlingRights, QueensideRight)
            /\ \A file \in {1, 2, 3} : board.pieces[Home(file)] = NoPiece
            /\ \A file \in {2, 3, 4} : ~AttackedBy(board, Home(file), ~board.turn)
       /\ board = NewBoard(F1_ATTACKED_FEN) => ~Castles(moves, 6)
       /\ (/\ last.op = "removePieceAt"
           /\ last.before = Fields(NewBoard(F1_ATTACKED_FEN))
           /\ last.arg = squareName(F8)) => Castles(moves, 6)

\* The rook on f8 has been removed from the position in which it attacked
\* f1, and white may now castle on either wing.
C16_Witness ==
    /\ last.op = "removePieceAt"
    /\ last.before = Fields(NewBoard(F1_ATTACKED_FEN))
    /\ last.arg = squareName(F8)
    /\ board.pieces[F8] = NoPiece
    /\ CastlesKingside
    /\ CastlesQueenside

\* The four moves of the fool's mate have been pushed from the starting
\* position.
FoolsMatePlayed ==
    /\ Len(shadow) = 4
    /\ shadow[1].before = Fields(NewBoard(STARTING_FEN))
    /\ \A i \in 1..4 : shadow[i].move = FOOLS_MATE_MOVES[i]

\* C17: in every position isCheckmate() holds exactly when isCheck() holds
\* and there is no legal move, isStalemate() exactly when isCheck() does not
\* hold and there is no legal move; so checkmate implies check, stalemate
\* implies no check, the two never hold together, and the position after f3,
\* e5, g4, Qh4 from the starting position is checkmate.
C17_TerminalStates ==
    LET check == isCheck(board)
        mate == isCheckmate(board)
        stale == isStalemate(board)
        none == Len(legalMoves(board)) = 0
    IN /\ mate <=> (check /\ none)
       /\ stale <=> (~check /\ none)
       /\ mate => check
       /\ stale => ~check
       /\ ~(mate /\ stale)
       /\ FoolsMatePlayed => mate

\* The fool's mate is on the board: black's queen on h4 gives check and
\* white has no legal move.
C17_Witness ==
    /\ FoolsMatePlayed
    /\ last.op = "pushSan"
    /\ board.pieces[31] = Piece(QUEEN, BLACK)
    /\ isCheckmate(board)
    /\ ~isStalemate(board)

\* By the rules: no king of color stands on a square the other side attacks.
KingSafe(b, color) ==
    \A sq \in SQUARES : b.pieces[sq] = Piece(KING, color) => ~AttackedBy(b, sq, ~color)

\* C22: legal filtering.  legalMoves() yields exactly the moves of
\* pseudoLegalMoves(), in their order, after which the king of the side that
\* moved is not attacked by the opponent; so after the push of a move taken
\* from legalMoves() the mover's king is not attacked, and listing
\* legalMoves() leaves every field of the board and its move stack as they
\* were.
C22_LegalFiltering ==
    /\ legalMoves(board) =
          SelectSeq(pseudoLegalMoves(board), LAMBDA m : KingSafe(push(copy(board), m), board.turn))
    /\ (last.op = "push" /\ shadow[Len(shadow)].legal) => KingSafe(board, ~board.turn)
    /\ last.op = "legalMoves" =>
          /\ Fields(board) = last.before
          /\ Len(board.moveStack) = Len(shadow)

\* The legal moves of a position have been listed, and some pseudo-legal
\* move of it is not among them.
C22_Witness ==
    /\ last.op = "legalMoves"
    /\ last.arg # <<>>
    /\ \E m \in SeqToSet(pseudoLegalMoves(board)) : m \notin SeqToSet(last.arg)

\* The 16 pawn moves and the 4 knight moves of the starting position.
FIRST_MOVES ==
    {Move(squareFromFileRank(file, 1), squareFromFileRank(file, rank), NullPT, NullPT) :
        file \in 0..7, rank \in {2, 3}}
    \cup {Move(1, 16, NullPT, NullPT), Move(1, 18, NullPT, NullPT),
          Move(6, 21, NullPT, NullPT), Move(6, 23, NullPT, NullPT)}

\* C18: in the standard starting position legalMoves() yields exactly 20
\* distinct moves: the single and double push of each of the 8 pawns and the
\* knight moves b1a3, b1c3, g1f3, g1h3, and nothing else.
C18_TwentyFirstMoves ==
    (last.op = "legalMoves" /\ last.before = Fields(NewBoard(STARTING_FEN))) =>
        /\ Len(last.arg) = 20
        /\ SeqToSet(last.arg) = FIRST_MOVES
        /\ Cardinality(FIRST_MOVES) = 20

\* The moves of the starting position have been listed, before any move is
\* made: there are 20 and Nf3 is one of them.
C18_Witness ==
    /\ last.op = "legalMoves"
    /\ board = NewBoard(STARTING_FEN)
    /\ Len(last.arg) = 20
    /\ g1f3 \in SeqToSet(last.arg)

(***************************************************************************)
(* Game.toPgn and reading the text back                                    *)
(***************************************************************************)
\* exportMoves(node, isMainline, moveNumber): the parts, in order, before
\* they are joined with blanks.  The continuation of a child is exported
\* right after its move, before the next child is opened with '('.
RECURSIVE exportMoves(_, _, _, _)
RECURSIVE exportFrom(_, _, _, _, _)
exportMoves(t, node, onMainline, moveNumber) == exportFrom(t, node, onMainline, moveNumber, 1)
exportFrom(t, node, onMainline, moveNumber, i) ==
    IF i > Len(t.variations[node]) THEN <<>>
    ELSE LET variation == t.variations[node][i]
             b == replay(t, node).board
             isFirst == i = 1
             isWhite == b.turn
             number == IF isWhite THEN NatToString(moveNumber) \o <<".">>
                       ELSE NatToString(moveNumber) \o <<".", ".", ".">>
             nextMoveNumber == IF isWhite THEN moveNumber ELSE moveNumber + 1
         IN (IF isFirst THEN (IF isWhite \/ node = 0 THEN <<number>> ELSE <<>>)
             ELSE << <<"(">>, number >>)
            \o <<san(b, t.move[variation])>>
            \o exportMoves(t, variation, onMainline /\ isFirst, nextMoveNumber)
            \o (IF isFirst THEN <<>> ELSE << <<")">> >>)
            \o exportFrom(t, node, onMainline, moveNumber, i + 1)

\* toPgn(): the words of the text after the header lines: the move text,
\* then the result '*' of a Game without a Result header.
toPgn(t) == exportMoves(t, 0, TRUE, 1) \o << <<"*">> >>

\* toPgn() throws where san() does: a node whose move starts on an empty
\* square of its parent's position.
toPgnThrows(t) ==
    \E n \in Nodes(t) : t.parent[n] # NullNode /\ sanThrows(replay(t, t.parent[n]).board, t.move[n])

\* The upstream parser's record for one SAN word: the word as notation, and
\* the piece letter, destination, disambiguation and promotion read off it.
moveRecord(word) ==
    LET s0 == StripSuffix(word)
        plain == s0 \in {SAN_OO, SAN_OOO, SAN_null, SAN_Z0} \/ Len(s0) < 2
        hasProm == Len(s0) > 3 /\ s0[Len(s0) - 1] = "="
        s1 == IF hasProm THEN SubSeq(s0, 1, Len(s0) - 2) ELSE s0
        front == RemoveFirstX(SubSeq(s1, 1, Len(s1) - 2))
        hasFig == front # <<>> /\ front[1] \in {"K", "Q", "R", "B", "N"}
    IN IF plain THEN PgnMove(word, "", "", "", <<>>, <<>>, FALSE, <<>>)
       ELSE PgnMove(word,
                    IF hasFig THEN front[1] ELSE "",
                    s1[Len(s1) - 1], s1[Len(s1)],
                    IF hasFig THEN Tail(front) ELSE front,
                    IF hasProm THEN SubSeq(s0, Len(s0) - 1, Len(s0)) ELSE <<>>,
                    FALSE, <<>>)

\* The upstream parser on the words of a move text, from word i to the end
\* of the line it is in: move numbers are dropped, '*' is the result, a
\* parenthesised line becomes a variation of the move just before it.
RECURSIVE parseLine(_, _, _)
parseLine(words, i, moves) ==
    IF i > Len(words) THEN [moves |-> moves, next |-> i]
    ELSE IF words[i] = <<")">> THEN [moves |-> moves, next |-> i + 1]
    ELSE IF words[i] = <<"(">>
    THEN LET inner == parseLine(words, i + 1, <<>>)
         IN parseLine(words, inner.next,
                      IF moves = <<>> THEN moves
                      ELSE [moves EXCEPT ![Len(moves)].variations = Append(@, inner.moves)])
    ELSE IF words[i] = <<"*">> THEN parseLine(words, i + 1, Append(moves, ResultToken))
    ELSE IF IndexOf(DIGITS, words[i][1]) > 0 THEN parseLine(words, i + 1, moves)
    ELSE parseLine(words, i + 1, Append(moves, moveRecord(words[i])))
parseGame(words) == parseLine(words, 1, <<>>).moves

\* [...game.mainline()].map(node => node.san()), from node n on
RECURSIVE mainlineSan(_, _)
mainlineSan(t, n) ==
    IF t.variations[n] = <<>> THEN <<>>
    ELSE LET child == t.variations[n][1]
         IN <<san(replay(t, n).board, t.move[child])>> \o mainlineSan(t, child)

\* 1. Ke2 (1. O-O) Ke7 2. Kd3 from the position of KP_FEN: a variation that castles
EXAMPLE_CASTLING_VARIATION ==
    [fen |-> KP_FEN, moves |-> <<With(T_Ke2, <<<<T_OO>>>>), T_Ke7, T_Kd3>>]

\* The parse trees of the games that are exported and read back.
ExportInputs == Examples \cup {EXAMPLE_CASTLING_VARIATION}

InitExport ==
    /\ input \in ExportInputs
    /\ tree = NewGame(input.fen)
    /\ stack = <<>>
    /\ errors = <<>>
    /\ buildStatus = "idle"
    /\ origin = <<>>
    /\ heap = EmptyHeap
    /\ held = NotHeld
    /\ first = [n \in TreeIds |-> NoFirst]
    /\ askedAgain = FALSE
    /\ edits = 0

\* readGame(g.toPgn()) for the Game g the first build returned, up to the
\* call of buildGameTree on the parse of the text; the mainline SAN list of g
\* and the tree of g are kept in last.  The FEN header is written and read
\* back unchanged.
ReadBack ==
    /\ buildStatus = "done"
    /\ last = NoLast
    /\ IF toPgnThrows(tree)
       THEN /\ last' = [op |-> "toPgnThrew", arg |-> <<>>, move |-> NoMove, before |-> NoLast.before]
            /\ UNCHANGED <<input, tree, stack, errors, buildStatus, origin>>
       ELSE \E words \in {toPgn(tree)} :
            /\ last' = [op |-> "toPgn", arg |-> mainlineSan(tree, 0), move |-> NoMove,
                        before |-> tree]
            /\ input' = [fen |-> tree.headerFen, moves |-> parseGame(words)]
            /\ tree' = NewGame(tree.headerFen)
            /\ stack' = <<>>
            /\ errors' = <<>>
            /\ buildStatus' = "idle"
            /\ origin' = <<>>
    /\ UNCHANGED <<board, shadow, depth>>
    /\ UNCHANGED <<uciVars, heap, held, first, askedAgain, edits>>

NextExport == BuildStart \/ BuildRecord \/ BuildVariation \/ BuildReturn \/ ReadBack

StartExport == InitExport /\ IdleBoard /\ IdleUci

SpecExport == StartExport /\ [][NextExport]_vars

\* C19: PGN export round trip.  For a Game g produced by readGame,
\* readGame(g.toPgn()) gives a Game (the second build does not throw) whose
\* mainline SAN list equals the mainline SAN list of g.
C19_ExportRoundTrip ==
    last.op = "toPgn" =>
        /\ buildStatus # "threw"
        /\ buildStatus = "done" => mainlineSan(tree, 0) = last.arg

(***************************************************************************)
(* Board.push: castling rights and counters                                *)
(***************************************************************************)
\* The positions moves are pushed on, and how many legal moves deep.
PushFens ==
    {STARTING_FEN, CASTLE_FEN, KP_FEN, RK_FEN, EP_FEN, F1_ATTACKED_FEN, G1_ATTACKED_FEN, BACK_RANK_FEN,
     BLACK_PAWN_FEN}
MaxPushPly == 1

InitPush ==
    /\ \E f \in PushFens : board = NewBoard(f)
    /\ shadow = <<>>
    /\ last = NoLast
    /\ depth = 0

\* board.push(m) for a move m taken from board.legalMoves()
PushedLegal == depth < MaxPushPly /\ PushLegal

NextPush == PushedLegal \/ Pop

StartPush == InitPush /\ IdleUci /\ IdleTree /\ IdleBuild

SpecPush == StartPush /\ [][NextPush]_vars

\* The push that led here: the piece that moved, whether it captured (en
\* passant is a pawn changing file onto an empty square), read off the
\* position before.
Mover == last.before.pieces[last.move.fromSquare]
Taken == last.before.pieces[last.move.toSquare]
EnPassant ==
    /\ Mover.pieceType = PAWN
    /\ squareFile(last.move.fromSquare) # squareFile(last.move.toSquare)
    /\ Taken = NoPiece
CASTLING_BITS ==
    {CASTLING_WHITE_KINGSIDE, CASTLING_WHITE_QUEENSIDE, CASTLING_BLACK_KINGSIDE, CASTLING_BLACK_QUEENSIDE}
BitColor(bit) == IF bit \in {CASTLING_WHITE_KINGSIDE, CASTLING_WHITE_QUEENSIDE} THEN WHITE ELSE BLACK
KingHome(bit) == IF BitColor(bit) = WHITE THEN E1 ELSE E8
RookHome(bit) ==
    IF bit = CASTLING_WHITE_KINGSIDE THEN H1 ELSE IF bit = CASTLING_WHITE_QUEENSIDE THEN A1
    ELSE IF bit = CASTLING_BLACK_KINGSIDE THEN H8 ELSE A8
\* the push is one of the cases in which the bit is to be cleared
Clears(bit) ==
    \/ Mover.pieceType = KING /\ Mover.color = BitColor(bit)
    \/ Mover.pieceType = ROOK /\ last.move.fromSquare = RookHome(bit)
    \/ Taken # NoPiece /\ Taken.pieceType = ROOK /\ last.move.toSquare = RookHome(bit)

\* C23: castling rights only shrink.  A push sets no castling bit; it clears
\* both bits of a color when that color's king moves, the bit of a1/h1/a8/h8
\* when a rook leaves that square or a rook on it is captured, and changes no
\* bit otherwise.  So a held right implies that the king and the rook of
\* that color stand on their home squares.
C23_CastlingRightsShrink ==
    /\ last.op = "push" =>
          \A bit \in CASTLING_BITS :
              HasRight(board.castlingRights, bit)
                  <=> (HasRight(last.before.castlingRights, bit) /\ ~Clears(bit))
    /\ \A bit \in CASTLING_BITS :
          HasRight(board.castlingRights, bit) =>
              /\ board.pieces[KingHome(bit)] = Piece(KING, BitColor(bit))
              /\ board.pieces[RookHome(bit)] = Piece(ROOK, BitColor(bit))

\* A rook has just captured the rook on a8: white's queenside right and
\* black's queenside right are gone, the two kingside rights are still held.
C23_Witness ==
    /\ last.op = "push"
    /\ Mover = Piece(ROOK, WHITE)
    /\ last.move.fromSquare = A1
    /\ last.move.toSquare = A8
    /\ Taken = Piece(ROOK, BLACK)
    /\ HasRight(last.before.castlingRights, CASTLING_WHITE_QUEENSIDE)
    /\ HasRight(last.before.castlingRights, CASTLING_BLACK_QUEENSIDE)
    /\ ~HasRight(board.castlingRights, CASTLING_WHITE_QUEENSIDE)
    /\ ~HasRight(board.castlingRights, CASTLING_BLACK_QUEENSIDE)
    /\ HasRight(board.castlingRights, CASTLING_WHITE_KINGSIDE)
    /\ HasRight(board.castlingRights, CASTLING_BLACK_KINGSIDE)

\* C24: counters on push.  The push of a legal move flips turn, adds one to
\* fullmoveNumber exactly when black moved, sets halfmoveClock to 0 when a
\* pawn moved or a piece was captured (en passant included) and adds one to
\* it otherwise, and sets epSquare to the square midway between origin and
\* destination when a pawn advanced two ranks, to none otherwise.
C24_CountersOnPush ==
    last.op = "push" =>
        /\ board.turn = ~last.before.turn
        /\ board.fullmoveNumber =
              last.before.fullmoveNumber + (IF last.before.turn = BLACK THEN 1 ELSE 0)
        /\ board.halfmoveClock =
              (IF Mover.pieceType = PAWN \/ Taken # NoPiece \/ EnPassant THEN 0
               ELSE last.before.halfmoveClock + 1)
        /\ board.epSquare =
              (IF Mover.pieceType = PAWN
                  /\ Abs(squareRank(last.move.toSquare) - squareRank(last.move.fromSquare)) = 2
               THEN squareFromFileRank(squareFile(last.move.fromSquare),
                                       (squareRank(last.move.fromSquare)
                                            + squareRank(last.move.toSquare)) \div 2)
               ELSE NullSq)

\* Black has just pushed a pawn two ranks: the en passant square lies behind
\* it, the clock is back at 0 and the move number went up.
C24_Witness ==
    /\ last.op = "push"
    /\ Mover = Piece(PAWN, BLACK)
    /\ squareRank(last.move.fromSquare) - squareRank(last.move.toSquare) = 2
    /\ board.epSquare = last.move.toSquare + 8
    /\ board.halfmoveClock = 0
    /\ last.before.halfmoveClock > 0
    /\ board.fullmoveNumber = last.before.fullmoveNumber + 1
    /\ board.turn = WHITE

\* The children of node n in their order, each with its move and its own
\* children.
RECURSIVE Shape(_, _)
RECURSIVE ShapeOf(_, _, _)
ShapeOf(t, children, i) ==
    IF i > Len(children) THEN <<>>
    ELSE <<[move |-> t.move[children[i]], below |-> Shape(t, children[i])]>>
         \o ShapeOf(t, children, i + 1)
Shape(t, n) == ShapeOf(t, t.variations[n], 1)

\* C29: toPgn preserves the tree shape.  When the text of toPgn is read by a
\* reader that attaches a parenthesised line to the move just before it on
\* the same level, and built by buildGameTree, every node of the new tree has
\* the same ordered list of children as in the exported tree.
C29_ExportKeepsShape ==
    (last.op = "toPgn" /\ buildStatus = "done") => Shape(tree, 0) = Shape(last.before, 0)

\* C30: SAN round trip.  For every move m of legalMoves() of a position,
\* castling, en passant, captures, promotions and moves that need
\* disambiguation included, parseSan(san(m)) on that position returns m.
C30_SanRoundTrip ==
    last.op = "san" => parseSan(board, last.arg) = last.move

\* san() was asked for a move that another piece of the same type could make
\* too, and its text carries an origin coordinate.
C30_Witness ==
    /\ last.op = "san"
    /\ Fields(board) = last.before
    /\ Rivals(last.move) # {}
    /\ Len(last.arg) >= 4
    /\ last.move \in SeqToSet(legalMoves(board))

=============================================================================
